---- MODULE Spec2Model ----
(***************************************************************************)
(* Device synchronisation and reconciliation engine of the alarmdotcom     *)
(* Home Assistant integration.                                             *)
(*                                                                         *)
(*  - the hub (alarmhub.py / controller.py): login, first refresh, the     *)
(*    update method async_update with its classification of remote errors, *)
(*    and the normalisation of the raw device lists into one snapshot;     *)
(*  - the update coordinator the hub delegates every refresh to.  Its      *)
(*    class is homeassistant's DataUpdateCoordinator: the repository only  *)
(*    constructs and calls it, so its scheduling is modelled from the      *)
(*    specification (section 4.2);                                         *)
(*  - the registry reconcilers (__init__.py, util.py).                     *)
(***************************************************************************)
EXTENDS Integers, Sequences, FiniteSets, TLC

(***************************************************************************)
(* Bounds of the model.                                                    *)
(***************************************************************************)
MaxFetch == 3

Callers == {"c1", "c2"}

(***************************************************************************)
(* Python values.  None, True and False are kept apart as strings so that  *)
(* `a or b` can be computed as Python computes it.                         *)
(***************************************************************************)
PyNone == "None"

PyTrue == "True"

PyFalse == "False"

Truthy(v) == v \notin {PyNone, PyFalse, ""}

PyOr(a, b) == IF Truthy(a) THEN a ELSE b

(***************************************************************************)
(* Small helpers on functions used as Python dicts.                        *)
(***************************************************************************)
EmptyDict == [k \in {} |-> PyNone]

DictSet(d, k, v) == [x \in (DOMAIN d) \cup {k} |-> IF x = k THEN v ELSE d[x]]

DictUpdate(d, e) == [x \in (DOMAIN d) \cup (DOMAIN e) |-> IF x \in DOMAIN e THEN e[x] ELSE d[x]]

Range(s) == {s[i] : i \in 1..Len(s)}

RECURSIVE JoinStr(_)
JoinStr(s) == IF s = << >> THEN "" ELSE Head(s) \o JoinStr(Tail(s))

(***************************************************************************)
(* Device normaliser: IntController.async_update after the remote call     *)
(* (controller.py 270-649).  A raw payload is a record of the library's    *)
(* device lists; every raw device carries id_, name, state, malfunction,   *)
(* parent (system_id / partition_id), battery_low, battery_critical,       *)
(* device_subtype, desired_state, and a camera its settings.  Attributes   *)
(* that are only passed through (mac_address, raw_state_text, debug_data,  *)
(* read_only, the command callbacks) are left out.                         *)
(***************************************************************************)
SENSOR_SUBTYPE_BLACKLIST == {"mobile_phone"}

Ids(seq) == {seq[i].id_ : i \in 1..Len(seq)}

\* dict[key] = value in list order: the last device with an id wins.
LastOf(seq, id) ==
    seq[CHOOSE i \in 1..Len(seq) :
            /\ seq[i].id_ = id
            /\ \A j \in (i + 1)..Len(seq) : seq[j].id_ # id]

Get(rec, key) == IF key \in DOMAIN rec THEN rec[key] ELSE PyNone

dest_sys(src) ==
    [unique_id |-> src.id_, name |-> src.name, malfunction |-> src.malfunction]

\* Mutant: a partition is emitted without its system as parent.
dest_part_parent_unset(src) ==
    [unique_id |-> src.id_, name |-> src.name, state |-> src.state,
     malfunction |-> src.malfunction, parent_id |-> PyNone,
     desired_state |-> src.desired_state]

dest_part(src) ==
    [unique_id |-> src.id_, name |-> src.name, state |-> src.state,
     malfunction |-> src.malfunction, parent_id |-> src.parent,
     desired_state |-> src.desired_state]

dest_sensor(src) ==
    [unique_id |-> src.id_, name |-> src.name, state |-> src.state,
     malfunction |-> src.malfunction, parent_id |-> src.parent,
     battery_low |-> PyOr(src.battery_low, src.battery_critical),
     device_subtype |-> src.device_subtype]

dest_lock(src) ==
    [unique_id |-> src.id_, name |-> src.name, state |-> src.state,
     malfunction |-> src.malfunction, parent_id |-> src.parent,
     battery_low |-> PyOr(src.battery_low, src.battery_critical),
     desired_state |-> src.desired_state]

dest_light(src) ==
    [unique_id |-> src.id_, name |-> src.name, state |-> src.state,
     malfunction |-> src.malfunction, parent_id |-> src.parent,
     desired_state |-> src.desired_state]

dest_garage(src) ==
    [unique_id |-> src.id_, name |-> src.name, state |-> src.state,
     malfunction |-> src.malfunction, parent_id |-> src.parent,
     desired_state |-> src.desired_state]

dest_camera(src) ==
    [unique_id |-> src.id_, name |-> src.name, parent_id |-> src.parent,
     model |-> "Skybell HD", manufacturer |-> "Skybell"]

\* Mutant: the blacklist test is missing from the sensor loop.
SensorsKept_unfiltered(raw) == raw.sensors

\* The sensor loop's `continue` on a blacklisted subtype (controller.py 353-359).
SensorsKept(raw) ==
    SelectSeq(raw.sensors, LAMBDA s : s.device_subtype \notin SENSOR_SUBTYPE_BLACKLIST)

EmptyDevices ==
    [entity_data |-> EmptyDict, system_ids |-> {}, partition_ids |-> {},
     sensor_ids |-> {}, lock_ids |-> {}, light_ids |-> {}, garage_door_ids |-> {},
     camera_ids |-> {}, low_battery_ids |-> {}, malfunction_ids |-> {},
     debug_ids |-> {}, config_switch_ids |-> {}, config_light_ids |-> {},
     config_select_ids |-> {}, config_number_ids |-> {}]

\* REAL DEVICES (controller.py 286-486): systems, partitions, sensors, locks,
\* lights, garage doors, cameras, in this order.
ProcessReal(raw) ==
    LET sens == SensorsKept(raw)
        e1 == [id \in Ids(raw.systems) |-> dest_sys(LastOf(raw.systems, id))]
        e2 == DictUpdate(e1, [id \in Ids(raw.partitions) |-> dest_part(LastOf(raw.partitions, id))])
        e3 == DictUpdate(e2, [id \in Ids(sens) |-> dest_sensor(LastOf(sens, id))])
        e4 == DictUpdate(e3, [id \in Ids(raw.locks) |-> dest_lock(LastOf(raw.locks, id))])
        e5 == DictUpdate(e4, [id \in Ids(raw.lights) |-> dest_light(LastOf(raw.lights, id))])
        e6 == DictUpdate(e5, [id \in Ids(raw.garage_doors) |-> dest_garage(LastOf(raw.garage_doors, id))])
        e7 == DictUpdate(e6, [id \in Ids(raw.cameras) |-> dest_camera(LastOf(raw.cameras, id))])
    IN  [EmptyDevices EXCEPT
            !.entity_data = e7,
            !.system_ids = Ids(raw.systems),
            !.partition_ids = Ids(raw.partitions),
            !.sensor_ids = Ids(sens),
            !.lock_ids = Ids(raw.locks),
            !.light_ids = Ids(raw.lights),
            !.garage_door_ids = Ids(raw.garage_doors),
            !.camera_ids = Ids(raw.cameras)]

dest_batt(parent) ==
    [unique_id |-> parent.unique_id \o "_low_battery",
     name |-> parent.name \o ": Battery",
     state |-> Get(parent, "battery_low"),
     parent_id |-> parent.unique_id]

dest_malfunction(parent) ==
    [unique_id |-> parent.unique_id \o "_malfunction",
     name |-> parent.name \o ": Malfunction",
     parent_id |-> parent.unique_id,
     state |-> Get(parent, "malfunction")]

dest_debug(parent) ==
    [unique_id |-> parent.unique_id \o "_debug",
     name |-> parent.name \o ": Debug",
     parent_id |-> parent.unique_id]

\* One loop of the META DEVICES section: the virtual children are added.
AddChildren(ed, kids) ==
    DictUpdate(ed, [u \in {k.unique_id : k \in kids} |->
                       CHOOSE k \in kids : k.unique_id = u])

\* META DEVICES (controller.py 487-575): low battery, malfunction, debug.
ProcessMeta(d) ==
    LET batt_parents == d.sensor_ids \cup d.lock_ids
        malf_parents == d.sensor_ids \cup d.lock_ids \cup d.partition_ids
                            \cup d.garage_door_ids \cup d.light_ids
        dbg_parents  == d.sensor_ids \cup d.lock_ids \cup d.partition_ids
                            \cup d.light_ids \cup d.garage_door_ids
        e1 == AddChildren(d.entity_data, {dest_batt(d.entity_data[p]) : p \in batt_parents})
        e2 == AddChildren(e1, {dest_malfunction(e1[p]) : p \in malf_parents})
        e3 == AddChildren(e2, {dest_debug(e2[p]) : p \in dbg_parents})
    IN  [d EXCEPT
            !.entity_data = e3,
            !.low_battery_ids = {dest_batt(d.entity_data[p]).unique_id : p \in batt_parents},
            !.malfunction_ids = {dest_malfunction(e1[p]).unique_id : p \in malf_parents},
            !.debug_ids = {dest_debug(e2[p]).unique_id : p \in dbg_parents}]

\* slug.replace('-', '_') on a slug given as its sequence of characters.
SlugId(slug) == JoinStr([i \in 1..Len(slug) |-> IF slug[i] = "-" THEN "_" ELSE slug[i]])

dest_config(camera, opt) ==
    [unique_id |-> camera.id_ \o "_" \o SlugId(opt.slug),
     parent_id |-> camera.id_,
     config_option |-> opt,
     name |-> opt.name]

\* CONFIGURATION DEVICES (controller.py 577-627): one entity per camera setting.
ProcessConfig(d, raw) ==
    LET opts == UNION {{<<i, j>> : j \in 1..Len(raw.cameras[i].settings)} :
                            i \in 1..Len(raw.cameras)}
        Cfg(o) == dest_config(raw.cameras[o[1]], raw.cameras[o[1]].settings[o[2]])
        OfType(ts) == {Cfg(o).unique_id : o \in {x \in opts : Cfg(x).config_option.option_type \in ts}}
        \* a later camera, or a later setting of one camera, overwrites an equal id
        Last(u) == CHOOSE o \in opts :
                      /\ Cfg(o).unique_id = u
                      /\ \A q \in opts : Cfg(q).unique_id = u =>
                            (q[1] < o[1] \/ (q[1] = o[1] /\ q[2] <= o[2]))
    IN  [d EXCEPT
            !.entity_data = DictUpdate(d.entity_data,
                                [u \in {Cfg(o).unique_id : o \in opts} |-> Cfg(Last(u))]),
            !.config_switch_ids = OfType({"BINARY_CHIME"}),
            !.config_select_ids = OfType({"MOTION_SENSITIVITY", "ADJUSTABLE_CHIME"}),
            !.config_light_ids = OfType({"COLOR"}),
            !.config_number_ids = OfType({"BRIGHTNESS"})]

\* The whole pass: the `devices` dict async_update returns (controller.py 631-649).
Normalize(raw) == ProcessConfig(ProcessMeta(ProcessReal(raw)), raw)

(***************************************************************************)
(* Upstream device states the remote account can be in.                    *)
(***************************************************************************)
Dev(id, name, state, malf, parent, bl, bc, subtype, desired) ==
    [id_ |-> id, name |-> name, state |-> state, malfunction |-> malf,
     parent |-> parent, battery_low |-> bl, battery_critical |-> bc,
     device_subtype |-> subtype, desired_state |-> desired]

Cam(id, name, parent, settings) ==
    [id_ |-> id, name |-> name, parent |-> parent, settings |-> settings]

RawA ==
    [systems      |-> <<Dev("sys1", "Home", PyNone, PyFalse, PyNone, PyNone, PyNone, PyNone, PyNone)>>,
     partitions   |-> <<Dev("p1", "Alarm", "DISARMED", PyNone, "sys1", PyNone, PyNone, PyNone, "DISARMED")>>,
     sensors      |-> <<Dev("s1", "Front Door", "CLOSED", PyFalse, "p1", PyFalse, PyFalse, "contact_sensor", PyNone),
                        Dev("s2", "Phone", "UNKNOWN", PyFalse, "p1", PyFalse, PyFalse, "mobile_phone", PyNone)>>,
     locks        |-> << >>,
     lights       |-> << >>,
     garage_doors |-> << >>,
     cameras      |-> << >>]

RawB ==
    [RawA EXCEPT
        !.sensors = <<Dev("s1", "Front Door", "OPEN", PyFalse, "p1", PyTrue, PyFalse, "contact_sensor", PyNone)>>,
        !.locks   = <<Dev("l1", "Back Lock", "LOCKED", PyNone, "p1", PyNone, PyNone, PyNone, "UNLOCKED")>>,
        !.cameras = <<Cam("cam1", "Doorbell", "p1",
                          <<[slug |-> <<"indoor", "-", "chime">>, name |-> "Indoor Chime",
                             option_type |-> "BINARY_CHIME"]>>)>>]

RawPayloads == {RawA, RawB}

\* What the library's device lists hold after an update that broke off on an
\* unexpected payload: only the lists parsed so far.
PartialRaw(raw) == [raw EXCEPT !.sensors = << >>, !.locks = << >>, !.cameras = << >>]

(***************************************************************************)
(* State.                                                                  *)
(***************************************************************************)
VARIABLES
    setup,        \* AlarmHub.async_setup: where it is, or how it ended
    setupCause,   \* the remote failure that ended async_setup, if any
    cstate,       \* update coordinator: None, Idle, Refreshing, FailedAuth, Failed, Stopped
    inflight,     \* running calls of async_update: fetch id -> [phase, remote, alarm, first]
    nfetch,       \* number of calls of the remote fetch (system.async_update) so far
    timerArmed,   \* the interval timer of the coordinator is scheduled
    callers,      \* callers of async_coordinator_update
    data,         \* coordinator.data: the published snapshot
    observed,     \* what a subscribed entity read last (ADCIEntity._update_device_data)
    raw,          \* the device state upstream
    last          \* the last completed fetch: id, remote outcome, what async_update raised

coordVars == <<setup, setupCause, cstate, inflight, nfetch, timerArmed, callers, data,
               observed, raw, last>>

VARIABLES
    reg_pc,           \* async_setup_entry's registry comparison: "start", "done", "off"
    reg_devices,      \* controller.devices, the snapshot it compares against
    device_registry,  \* the host's device registry entries
    reg_removed       \* ids of the device entries it removed

regVars == <<reg_pc, reg_devices, device_registry, reg_removed>>

VARIABLES
    cl_pc,               \* cleanup_orphaned_entities_and_devices: "start", "done", "off"
    cl_platform,         \* its platform argument
    cl_current_eids,     \* its current_entity_ids argument
    cl_current_uids,     \* its current_unique_ids argument
    cl_entities,         \* the host's entity registry entries
    cl_devices,          \* the host's device registry entries
    cl_removed_entities, \* entity ids it removed
    cl_removed_devices   \* device ids it removed

cleanVars == <<cl_pc, cl_platform, cl_current_eids, cl_current_uids, cl_entities,
               cl_devices, cl_removed_entities, cl_removed_devices>>

VARIABLES
    mig_pc,      \* async_migrate_entry: "start", "migrated", "off"
    mig_entry,   \* the config entry: [version, options]
    mig_before,  \* the config entry as the last call found it
    mig_steps    \* the migration steps the last call ran, in order

migVars == <<mig_pc, mig_entry, mig_before, mig_steps>>

VARIABLES
    nz_pc,    \* normaliser passes on one raw state: "start", "once", "twice", "off"
    nz_raw,   \* the library's device lists
    nz_out,   \* the devices dict the last pass returned
    nz_prev   \* the devices dict the pass before returned

normVars == <<nz_pc, nz_raw, nz_out, nz_prev>>

VARIABLES
    cmd_pc,        \* an entity's command handler: "off", "idle", "sending", "refresh", "awaiting", "done"
    cmd_arm_code,  \* config_entry.options.get("arm_code")
    cmd_call,      \* the service call being handled: [platform, command, code]
    cmd_log,       \* what the handler did so far, in order
    cmd_result,    \* what the handler's caller got: "none", "returned" or the error raised
    cmd_fetch      \* the coordinator fetch the handler awaits (0: none)

cmdVars == <<cmd_pc, cmd_arm_code, cmd_call, cmd_log, cmd_result, cmd_fetch>>

VARIABLES
    hub_pc,          \* AlarmHub (hub.py): "off", "new", "initializing", "finally", "leaving", "ready",
                     \* "failed", "closed"
    hub_api,         \* the calls the hub made on the bridge and the host, in order
    hub_exc,         \* what api.initialize() raised ("none": nothing)
    hub_result,      \* what initialize() gave its caller ("none": not yet)
    ws_state,        \* the library's websocket: "NONE", "CONNECTED", "DISCONNECTED", "DEAD", "CLOSED"
    ws_raised,       \* what _ws_state_handler raised for the last connection event
    ws_ever,         \* the websocket has been connected at some time
    ws_down_at,      \* the time it was last disconnected
    now,             \* the event loop's clock, in seconds
    last_connected,  \* AlarmHub._last_connected (NeverSet: the attribute is not set)
    hub_query,       \* the last read of AlarmHub.available: [asked, at, connected, result]
    res_state,       \* resource.attributes.state of a managed device
    res_loading,     \* resource.attributes.loading
    ent_available    \* AdcEntity._attr_available ("None": no entity yet)

hubVars == <<hub_pc, hub_api, hub_exc, hub_result, ws_state, ws_raised, ws_ever, ws_down_at,
             now, last_connected, hub_query, res_state, res_loading, ent_available>>

VARIABLES
    vw_pc,        \* an entity's displayed attributes: "off", "new", "shown"
    vw_resource,  \* the device behind it: [kind, name, subtype, state, desired_state, is_malfunctioning]
    vw_shown      \* [device_class, alarm_state, is_locked, is_locking, is_unlocking]

viewVars == <<vw_pc, vw_resource, vw_shown>>

platformVars == <<cmdVars, hubVars, viewVars>>

vars == <<coordVars, regVars, cleanVars, migVars, normVars, platformVars>>

\* What each part of the model leaves alone.
notCoord == <<regVars, cleanVars, migVars, normVars, platformVars>>

notReg == <<coordVars, cleanVars, migVars, normVars, platformVars>>

notClean == <<coordVars, regVars, migVars, normVars, platformVars>>

notMig == <<coordVars, regVars, cleanVars, normVars, platformVars>>

notNorm == <<coordVars, regVars, cleanVars, migVars, platformVars>>

notCmd == <<regVars, cleanVars, migVars, normVars, hubVars, viewVars>>

notHub == <<coordVars, regVars, cleanVars, migVars, normVars, cmdVars, viewVars>>

notView == <<coordVars, regVars, cleanVars, migVars, normVars, cmdVars, hubVars>>

NoData == [entity_data |-> "unset"]

NoCause == [stage |-> "none", remote |-> "none"]

NoFetch == [id |-> 0, remote |-> "none", raised |-> "none", first |-> FALSE]

IdleCaller == [pc |-> "idle", critical |-> FALSE, fetch |-> 0, reqAt |-> 0, result |-> "none"]

(***************************************************************************)
(* Remote failures and their classification by the hub.                    *)
(***************************************************************************)
LoginErrors ==
    {"UnexpectedDataStructure", "AuthenticationFailed", "TimeoutError",
     "ClientError", "CancelledError", "ConnectionError"}

FetchErrors ==
    {"UnexpectedDataStructure", "ConnectionError", "TypeError", "PermissionError",
     "AuthenticationFailed", "TimeoutError", "ClientError"}

\* BasicAlarmHub.async_login: what it raises when the library's login raises exc.
async_login_raises(exc) ==
    CASE exc = "UnexpectedDataStructure" -> "UpdateFailed"
      [] exc = "AuthenticationFailed" -> "ConfigEntryAuthFailed"
      [] exc \in {"TimeoutError", "ClientError", "CancelledError", "ConnectionError"} -> exc
      [] OTHER -> exc

\* Mutant: aiohttp.ClientError is missing from the tuple async_setup catches.
async_setup_raises_no_client_error(exc) ==
    LET e == async_login_raises(exc)
    IN  CASE e \in {"TimeoutError", "CancelledError", "ConnectionError"}
                -> "ConfigEntryNotReady"
          [] OTHER -> e

\* AlarmHub.async_setup, the try around async_login: what it raises.
async_setup_raises(exc) ==
    LET e == async_login_raises(exc)
    IN  CASE e \in {"TimeoutError", "ClientError", "CancelledError", "ConnectionError"}
                -> "ConfigEntryNotReady"
          [] e \in {"ConfigEntryAuthFailed", "ConfigEntryNotReady"} -> e
          [] OTHER -> e

\* Mutant: invalid credentials are reported as a plain update failure.
async_update_raises_auth_as_update_failed(exc) ==
    CASE exc \in {"UnexpectedDataStructure", "ConnectionError", "AuthenticationFailed"}
            -> "UpdateFailed"
      [] exc \in {"TypeError", "PermissionError"} -> "ConfigEntryAuthFailed"
      [] OTHER -> exc

\* Mutant: an unexpected payload is swallowed and async_update goes on with
\* the device lists as they are.
async_update_raises_swallow_unexpected(exc) ==
    CASE exc = "UnexpectedDataStructure" -> "none"
      [] exc = "ConnectionError" -> "UpdateFailed"
      [] exc \in {"TypeError", "PermissionError", "AuthenticationFailed"}
            -> "ConfigEntryAuthFailed"
      [] OTHER -> exc

\* Mutant: a timeout is caught by the clause that raises ConfigEntryAuthFailed.
async_update_raises_timeout_as_auth(exc) ==
    CASE exc \in {"UnexpectedDataStructure", "ConnectionError"} -> "UpdateFailed"
      [] exc \in {"TypeError", "PermissionError", "AuthenticationFailed", "TimeoutError"}
            -> "ConfigEntryAuthFailed"
      [] OTHER -> exc

\* Mutant: a PermissionError of the fetch is passed on as it is.
async_update_raises_permission_passed(exc) ==
    CASE exc \in {"UnexpectedDataStructure", "ConnectionError"} -> "UpdateFailed"
      [] exc = "TypeError" -> "ConfigEntryAuthFailed"
      [] exc = "AuthenticationFailed" -> "ConfigEntryAuthFailed"
      [] OTHER -> exc

\* AlarmHub.async_update: what it raises when system.async_update() raises exc
\* ("none": it goes on and returns).
async_update_raises(exc) ==
    CASE exc \in {"UnexpectedDataStructure", "ConnectionError"} -> "UpdateFailed"
      [] exc = "TypeError" -> "ConfigEntryAuthFailed"
      [] exc = "PermissionError" -> "ConfigEntryAuthFailed"
      [] exc = "AuthenticationFailed" -> "ConfigEntryAuthFailed"
      [] exc \in {"TimeoutError", "ClientError"} -> exc
      [] OTHER -> exc

\* Mutant: the flag is ignored and every refresh is only requested.
async_coordinator_update_never_forced(critical) == "async_request_refresh"

\* AlarmHub.async_coordinator_update: the coordinator method the flag selects.
async_coordinator_update(critical) ==
    IF critical THEN "async_refresh" ELSE "async_request_refresh"

(***************************************************************************)
(* The update coordinator (homeassistant DataUpdateCoordinator).  The hub  *)
(* constructs it around async_update and calls its refresh methods; its    *)
(* own scheduling follows section 4.2 of the specification.                *)
(***************************************************************************)
\* Mutant: a request starts a fetch of its own while one is running.
StartsFetch_duplicating(st) == st \in {"Idle", "Refreshing"}

\* Single flight: a refresh request starts a fetch only when none is running;
\* otherwise it is coalesced with the running one.
StartsFetch(st) == st = "Idle"

\* The coordinator accepts refresh requests while it is running.
Running(st) == st \in {"Idle", "Refreshing"}

\* Failure classification: an auth failure is fatal, anything else returns to Idle.
StateAfterFailure(raised) ==
    IF raised = "ConfigEntryAuthFailed" THEN "FailedAuth" ELSE "Idle"

\* async_config_entry_first_refresh: what the first refresh raises to async_setup.
first_refresh_raises(raised) ==
    IF raised = "ConfigEntryAuthFailed" THEN "ConfigEntryAuthFailed" ELSE "ConfigEntryNotReady"

TheInflight == CHOOSE f \in DOMAIN inflight : \A g \in DOMAIN inflight : g <= f

BeginFetch(first) ==
    /\ nfetch < MaxFetch
    /\ nfetch' = nfetch + 1
    /\ inflight' = [f \in (DOMAIN inflight) \cup {nfetch + 1} |->
                        IF f = nfetch + 1
                        THEN [phase |-> "remote", remote |-> "pending", alarm |-> RawA, first |-> first]
                        ELSE inflight[f]]
    /\ cstate' = "Refreshing"

Drop(f) == [g \in (DOMAIN inflight) \ {f} |-> inflight[g]]

\* Every caller awaiting fetch f resumes with its result.
Resume(f, result) ==
    [c \in Callers |->
        IF callers[c].pc = "waiting" /\ callers[c].fetch = f
        THEN [callers[c] EXCEPT !.pc = "returned", !.result = result]
        ELSE callers[c]]

(***************************************************************************)
(* AlarmHub.async_setup (alarmhub.py 146-191).                             *)
(***************************************************************************)
SetupLoginFails(exc) ==
    /\ UNCHANGED notCoord
    /\ setup = "init"
    /\ setup' = async_setup_raises(exc)
    /\ setupCause' = [stage |-> "login", remote |-> exc]
    /\ UNCHANGED <<cstate, inflight, nfetch, timerArmed, callers,
                   data, observed, raw, last>>

SetupLoginOk ==
    /\ UNCHANGED notCoord
    /\ setup = "init"
    /\ setup' = "logged_in"
    /\ UNCHANGED <<setupCause, cstate, inflight, nfetch, timerArmed,
                   callers, data, observed, raw, last>>

\* The coordinator is constructed and the first refresh awaited.
SetupFirstRefresh ==
    /\ UNCHANGED notCoord
    /\ setup = "logged_in"
    /\ setup' = "first_refresh"
    /\ BeginFetch(TRUE)
    /\ UNCHANGED <<setupCause, timerArmed, callers, data, observed, raw, last>>

(***************************************************************************)
(* One call of async_update (controller.py 225-649) run by the coordinator.*)
(***************************************************************************)
\* Mutant: the normaliser fills the published dict in place.
DataWhileBuilding_in_place(published, local) == local

\* The normaliser fills local collections (controller.py 270-284); the
\* published data is not touched while it runs.
DataWhileBuilding(published, local) == published

\* The remote fetch raises exc.
FetchRaises(f, exc) ==
    /\ UNCHANGED notCoord
    /\ f \in DOMAIN inflight
    /\ inflight[f].phase = "remote"
    /\ LET raised == async_update_raises(exc)
           first  == inflight[f].first
       IN  IF raised = "none"
           THEN /\ inflight' = [inflight EXCEPT ![f].phase = "fetched",
                                                ![f].remote = exc,
                                                ![f].alarm = PartialRaw(raw)]
                /\ UNCHANGED <<setup, setupCause, cstate, timerArmed, callers, last>>
           ELSE /\ inflight' = Drop(f)
                /\ last' = [id |-> f, remote |-> exc, raised |-> raised, first |-> first]
                /\ callers' = Resume(f, raised)
                /\ IF first
                   THEN /\ setup' = first_refresh_raises(raised)
                        /\ setupCause' = [stage |-> "first_refresh", remote |-> exc]
                        /\ cstate' = IF StateAfterFailure(raised) = "FailedAuth"
                                     THEN "FailedAuth" ELSE "Failed"
                        /\ UNCHANGED timerArmed
                   ELSE /\ cstate' = StateAfterFailure(raised)
                        /\ timerArmed' = (timerArmed /\ StateAfterFailure(raised) = "Idle")
                        /\ UNCHANGED <<setup, setupCause>>
    /\ UNCHANGED <<nfetch, data, observed, raw>>

\* The remote fetch returns: the library's device lists hold the upstream state.
FetchReturns(f) ==
    /\ UNCHANGED notCoord
    /\ f \in DOMAIN inflight
    /\ inflight[f].phase = "remote"
    /\ inflight' = [inflight EXCEPT ![f].phase = "fetched", ![f].remote = "ok",
                                     ![f].alarm = raw]
    /\ UNCHANGED <<setup, setupCause, cstate, nfetch, timerArmed,
                   callers, data, observed, raw, last>>

NormalizeReal(f) ==
    /\ UNCHANGED notCoord
    /\ f \in DOMAIN inflight
    /\ inflight[f].phase = "fetched"
    /\ inflight' = [inflight EXCEPT ![f].phase = "real"]
    /\ data' = DataWhileBuilding(data, ProcessReal(inflight[f].alarm))
    /\ UNCHANGED <<setup, setupCause, cstate, nfetch, timerArmed,
                   callers, observed, raw, last>>

NormalizeMeta(f) ==
    /\ UNCHANGED notCoord
    /\ f \in DOMAIN inflight
    /\ inflight[f].phase = "real"
    /\ inflight' = [inflight EXCEPT ![f].phase = "meta"]
    /\ data' = DataWhileBuilding(data, ProcessMeta(ProcessReal(inflight[f].alarm)))
    /\ UNCHANGED <<setup, setupCause, cstate, nfetch, timerArmed,
                   callers, observed, raw, last>>

\* async_update returns `devices`; the coordinator publishes it, notifies the
\* subscribers and returns to Idle.
ReturnDevices(f) ==
    /\ UNCHANGED notCoord
    /\ f \in DOMAIN inflight
    /\ inflight[f].phase = "meta"
    /\ inflight' = Drop(f)
    /\ data' = Normalize(inflight[f].alarm)
    /\ last' = [id |-> f, remote |-> inflight[f].remote, raised |-> "none",
                first |-> inflight[f].first]
    /\ callers' = Resume(f, "ok")
    /\ cstate' = "Idle"
    /\ IF inflight[f].first
       THEN setup' = "ok" /\ timerArmed' = TRUE
       ELSE UNCHANGED <<setup, timerArmed>>
    /\ UNCHANGED <<setupCause, nfetch, observed, raw>>

(***************************************************************************)
(* Refresh requests.                                                       *)
(***************************************************************************)
\* The interval timer fires.
TimerTick ==
    /\ UNCHANGED notCoord
    /\ timerArmed
    /\ StartsFetch(cstate)
    /\ BeginFetch(FALSE)
    /\ UNCHANGED <<setup, setupCause, timerArmed, callers, data,
                   observed, raw, last>>

\* A caller awaits async_coordinator_update(critical) (alarmhub.py 193-199).
RequestRefresh(c, critical) ==
    /\ UNCHANGED notCoord
    /\ setup = "ok"
    /\ Running(cstate)
    /\ callers[c].pc = "idle"
    /\ IF async_coordinator_update(critical) = "async_refresh"
       THEN IF StartsFetch(cstate)
            THEN /\ BeginFetch(FALSE)
                 /\ callers' = [callers EXCEPT ![c] =
                        [pc |-> "waiting", critical |-> critical, fetch |-> nfetch + 1,
                         reqAt |-> nfetch, result |-> "none"]]
            ELSE /\ callers' = [callers EXCEPT ![c] =
                        [pc |-> "waiting", critical |-> critical, fetch |-> TheInflight,
                         reqAt |-> nfetch, result |-> "none"]]
                 /\ UNCHANGED <<cstate, inflight, nfetch>>
       ELSE /\ callers' = [callers EXCEPT ![c] =
                        [pc |-> "returned", critical |-> critical, fetch |-> 0,
                         reqAt |-> nfetch, result |-> "none"]]
            /\ IF StartsFetch(cstate)
               THEN BeginFetch(FALSE)
               ELSE UNCHANGED <<cstate, inflight, nfetch>>
    /\ UNCHANGED <<setup, setupCause, timerArmed, data, observed, raw, last>>

\* A push event asks for a non-critical refresh: a fetch when none is running,
\* a no-op otherwise.
PushEvent ==
    /\ UNCHANGED notCoord
    /\ setup = "ok"
    /\ Running(cstate)
    /\ StartsFetch(cstate)
    /\ BeginFetch(FALSE)
    /\ UNCHANGED <<setup, setupCause, timerArmed, callers, data, observed, raw, last>>

CallerDone(c) ==
    /\ UNCHANGED notCoord
    /\ callers[c].pc = "returned"
    /\ callers' = [callers EXCEPT ![c] = IdleCaller]
    /\ UNCHANGED <<setup, setupCause, cstate, inflight, nfetch, timerArmed,
                   data, observed, raw, last>>

(***************************************************************************)
(* Environment: subscribers, upstream changes, unload and a new start.     *)
(***************************************************************************)
\* ADCIEntity._update_device_data: an entity reads the published devices.
SubscriberRead ==
    /\ UNCHANGED notCoord
    /\ data # NoData
    /\ observed # data
    /\ observed' = data
    /\ UNCHANGED <<setup, setupCause, cstate, inflight, nfetch, timerArmed,
                   callers, data, raw, last>>

UpstreamChange ==
    /\ UNCHANGED notCoord
    /\ \E r \in RawPayloads \ {raw} : raw' = r
    /\ UNCHANGED <<setup, setupCause, cstate, inflight, nfetch, timerArmed,
                   callers, data, observed, last>>

\* async_unload_entry: the coordinator is stopped.
Unload ==
    /\ UNCHANGED notCoord
    /\ setup = "ok"
    /\ inflight = EmptyDict
    /\ cstate' = "Stopped"
    /\ setup' = "unloaded"
    /\ timerArmed' = FALSE
    /\ UNCHANGED <<setupCause, inflight, nfetch, callers, data, observed, raw, last>>

\* The host sets the entry up again (after backoff, or with fresh credentials).
Restart ==
    /\ UNCHANGED notCoord
    /\ setup \in {"ConfigEntryAuthFailed", "ConfigEntryNotReady", "UpdateFailed", "unloaded"}
         \/ (setup = "ok" /\ cstate = "FailedAuth")
    /\ inflight = EmptyDict
    /\ setup' = "init"
    /\ setupCause' = NoCause
    /\ cstate' = "None"
    /\ timerArmed' = FALSE
    /\ callers' = [c \in Callers |-> IdleCaller]
    /\ data' = NoData
    /\ observed' = NoData
    /\ last' = NoFetch
    /\ UNCHANGED <<inflight, nfetch, raw>>

RegOff ==
    /\ reg_pc = "off"
    /\ reg_devices = EmptyDevices
    /\ device_registry = {}
    /\ reg_removed = {}

CleanOff ==
    /\ cl_pc = "off"
    /\ cl_platform = "lock"
    /\ cl_current_eids = {}
    /\ cl_current_uids = {}
    /\ cl_entities = {}
    /\ cl_devices = {}
    /\ cl_removed_entities = {}
    /\ cl_removed_devices = {}

MigOff ==
    /\ mig_pc = "off"
    /\ mig_entry = [version |-> 3, options |-> EmptyDict]
    /\ mig_before = [version |-> 3, options |-> EmptyDict]
    /\ mig_steps = << >>

NormOff ==
    /\ nz_pc = "off"
    /\ nz_raw = RawA
    /\ nz_out = EmptyDevices
    /\ nz_prev = EmptyDevices

NoCall == [platform |-> "none", command |-> "none", code |-> PyNone]

CmdOff ==
    /\ cmd_pc = "off"
    /\ cmd_arm_code = PyNone
    /\ cmd_call = NoCall
    /\ cmd_log = << >>
    /\ cmd_result = "none"
    /\ cmd_fetch = 0

NeverSet == -1

NoQuery == [asked |-> FALSE, at |-> 0, connected |-> FALSE, result |-> FALSE]

HubOff ==
    /\ hub_pc = "off"
    /\ hub_api = << >>
    /\ hub_exc = "none"
    /\ hub_result = "none"
    /\ ws_state = "NONE"
    /\ ws_raised = "none"
    /\ ws_ever = FALSE
    /\ ws_down_at = 0
    /\ now = 0
    /\ last_connected = NeverSet
    /\ hub_query = NoQuery
    /\ res_state = "CLOSED"
    /\ res_loading = FALSE
    /\ ent_available = PyNone

NoResource ==
    [kind |-> "none", name |-> << >>, subtype |-> PyNone, state |-> PyNone,
     desired_state |-> PyNone, is_malfunctioning |-> FALSE]

NothingShown ==
    [device_class |-> PyNone, alarm_state |-> PyNone, is_locked |-> FALSE,
     is_locking |-> FALSE, is_unlocking |-> FALSE]

ViewOff ==
    /\ vw_pc = "off"
    /\ vw_resource = NoResource
    /\ vw_shown = NothingShown

PlatformOff == CmdOff /\ HubOff /\ ViewOff

CoordInit ==
    /\ setup = "init"
    /\ setupCause = NoCause
    /\ cstate = "None"
    /\ inflight = EmptyDict
    /\ nfetch = 0
    /\ timerArmed = FALSE
    /\ callers = [c \in Callers |-> IdleCaller]
    /\ data = NoData
    /\ observed = NoData
    /\ raw \in RawPayloads
    /\ last = NoFetch

Init == CoordInit /\ RegOff /\ CleanOff /\ MigOff /\ NormOff /\ PlatformOff

Next ==
    \/ \E exc \in LoginErrors : SetupLoginFails(exc)
    \/ SetupLoginOk
    \/ SetupFirstRefresh
    \/ \E f \in 1..MaxFetch, exc \in FetchErrors : FetchRaises(f, exc)
    \/ \E f \in 1..MaxFetch : FetchReturns(f)
    \/ \E f \in 1..MaxFetch : NormalizeReal(f)
    \/ \E f \in 1..MaxFetch : NormalizeMeta(f)
    \/ \E f \in 1..MaxFetch : ReturnDevices(f)
    \/ TimerTick
    \/ \E c \in Callers, critical \in BOOLEAN : RequestRefresh(c, critical)
    \/ PushEvent
    \/ \E c \in Callers : CallerDone(c)
    \/ SubscriberRead
    \/ UpstreamChange
    \/ Unload
    \/ Restart

Spec == Init /\ [][Next]_vars

(***************************************************************************)
(* Properties of the update coordinator.                                   *)
(***************************************************************************)
Transient == {"TimeoutError", "ClientError", "ConnectionError"}

CompleteSnapshots == {Normalize(r) : r \in RawPayloads}

\* C1: single flight.  At most one fetch is in flight in every reachable
\* state, and no step taken while a fetch is running (a timer tick, a critical
\* or non-critical request, a push event) starts another fetch: requests made
\* during a fetch add no call of the remote fetch.
C1_SingleFlight ==
    /\ [](Cardinality(DOMAIN inflight) <= 1)
    /\ [][inflight # EmptyDict => nfetch' = nfetch]_vars

\* C1 witness: two critical callers are awaiting the one fetch in flight.
C1_Witness ==
    /\ Cardinality(DOMAIN inflight) = 1
    /\ \A c \in Callers : callers[c].pc = "waiting" /\ callers[c].fetch \in DOMAIN inflight
    /\ \E c \in Callers : callers[c].reqAt = nfetch

\* C2: after a fetch failed on invalid credentials the coordinator is in
\* FailedAuth (Stopped once the entry is unloaded) with its timer off, and from
\* FailedAuth no step calls the remote fetch or brings the coordinator back to
\* Idle or Refreshing, except a new start of the entry.
C2_AuthFailureIsFinal ==
    /\ [](last.remote = "AuthenticationFailed"
            => cstate \in {"FailedAuth", "Stopped"} /\ ~timerArmed /\ inflight = EmptyDict)
    /\ [][cstate = "FailedAuth"
            => (cstate' \in {"FailedAuth", "Stopped"} /\ nfetch' = nfetch /\ ~timerArmed')
               \/ setup' = "init"]_vars

\* C2 witness: a scheduled refresh of a set-up hub failed on invalid credentials.
C2_Witness ==
    /\ setup = "ok"
    /\ cstate = "FailedAuth"
    /\ last.remote = "AuthenticationFailed"
    /\ ~last.first

\* C3: whatever is published, and whatever a subscriber has read, is the
\* complete output of one normalisation pass over one upstream payload.
C3_AtomicPublication ==
    /\ data # NoData => data \in CompleteSnapshots
    /\ observed # NoData => observed \in CompleteSnapshots

\* C3 witness: a subscriber holds the published snapshot while a pass over a
\* different payload is half way through.
C3_Witness ==
    /\ observed # NoData
    /\ observed = data
    /\ \E f \in DOMAIN inflight :
          /\ inflight[f].phase \in {"real", "meta"}
          /\ Normalize(inflight[f].alarm) # data

\* C4: the step in which a refresh of a set-up hub fails on an unexpected
\* payload leaves the published snapshot as it was, returns the coordinator
\* to Idle and keeps its timer.
C4_ProtocolErrorKeepsSnapshot ==
    [][(last' # last /\ last'.remote = "UnexpectedDataStructure" /\ ~last'.first)
          => (data' = data /\ cstate' = "Idle" /\ timerArmed' = timerArmed)]_vars

\* C4 witness: a refresh has failed on an unexpected payload with a snapshot published.
C4_Witness ==
    /\ last.remote = "UnexpectedDataStructure"
    /\ ~last.first
    /\ data \in CompleteSnapshots
    /\ cstate = "Idle"

\* C5: the step in which a refresh of a set-up hub fails on a timeout, a client
\* error or a connection error returns the coordinator to Idle with nothing in
\* flight and no new fetch started, keeps the timer, and does not raise the
\* authentication failure.
C5_TransientReturnsToIdle ==
    [][(last' # last /\ last'.remote \in Transient /\ ~last'.first)
          => /\ cstate' = "Idle"
             /\ inflight' = EmptyDict
             /\ nfetch' = nfetch
             /\ timerArmed' = timerArmed
             /\ last'.raised # "ConfigEntryAuthFailed"]_vars

\* C5 witness: a refresh has timed out, and the next fetch was started later.
C5_Witness ==
    /\ last.remote = "TimeoutError"
    /\ ~last.first
    /\ nfetch > last.id
    /\ inflight # EmptyDict

\* C6: a critical caller that has returned waited for a fetch that has
\* completed and holds its result (ok, or what async_update raised); a critical
\* caller still waiting has its fetch in flight; a non-critical caller returns
\* having waited for no fetch.
C6_CriticalAwaits ==
    \A c \in Callers :
        /\ (callers[c].pc = "waiting")
              => callers[c].critical /\ callers[c].fetch \in DOMAIN inflight
        /\ (callers[c].pc = "returned" /\ callers[c].critical)
              => /\ callers[c].fetch > 0
                 /\ callers[c].fetch \notin DOMAIN inflight
                 /\ callers[c].result # "none"
                 /\ (last.id = callers[c].fetch
                        => callers[c].result = IF last.raised = "none" THEN "ok" ELSE last.raised)
        /\ (callers[c].pc = "returned" /\ ~callers[c].critical)
              => callers[c].fetch = 0 /\ callers[c].result = "none"

\* C6 witness: one critical caller got the failure of its fetch, and one
\* non-critical caller has returned while the fetch it started is in flight.
C6_Witness ==
    \E c, d \in Callers :
        /\ callers[c].pc = "returned" /\ callers[c].critical
        /\ callers[c].result = "TimeoutError"
        /\ callers[d].pc = "returned" /\ ~callers[d].critical
        /\ callers[d].reqAt + 1 \in DOMAIN inflight

\* C8: async_setup ends in ConfigEntryAuthFailed when the login or the first
\* fetch met invalid credentials and in ConfigEntryNotReady when it met a
\* timeout, a client error or a connection error; a failed setup has armed no
\* timer and left no running coordinator, and a setup that reports success has
\* completed its first fetch and published its snapshot.
C8_SetupFailures ==
    /\ setupCause.remote = "AuthenticationFailed" => setup = "ConfigEntryAuthFailed"
    /\ setupCause.remote \in Transient => setup = "ConfigEntryNotReady"
    /\ setupCause # NoCause => ~timerArmed /\ ~Running(cstate) /\ setup # "ok"
    /\ setup = "ok" => data \in CompleteSnapshots /\ nfetch >= 1

\* C8 witness: the first fetch timed out and setup ended not ready.
C8_Witness ==
    /\ setup = "ConfigEntryNotReady"
    /\ setupCause = [stage |-> "first_refresh", remote |-> "TimeoutError"]

(***************************************************************************)
(* Registry reconciliation in async_setup_entry (__init__.py 54-112):      *)
(* device entries of the config entry that are no longer present upstream  *)
(* are deleted from the host's device registry.                            *)
(***************************************************************************)
ADC_DOMAIN == "alarmdotcom"

ThisEntry == "entry1"

\* __init__.py 58-87: the ids of controller.devices, less the blacklisted sensors.
current_device_ids(devices) ==
    LET ids == DOMAIN devices.entity_data
        phones == {sid \in devices.sensor_ids :
                      /\ sid \in ids
                      /\ Get(devices.entity_data[sid], "device_subtype")
                            \in SENSOR_SUBTYPE_BLACKLIST}
    IN  ids \ phones

\* Mutant: the known suffixes are stripped from the registered identifier
\* before it is looked up.
StripBases == {"sys1", "p1", "s1", "s2", "s9", "l1", "cam1"}

VirtualSuffixes == {"_low_battery", "_malfunction", "_debug"}

StripSuffix(ident) ==
    IF \E b \in StripBases, x \in VirtualSuffixes : b \o x = ident
    THEN CHOOSE b \in StripBases : \E x \in VirtualSuffixes : b \o x = ident
    ELSE ident

IsCurrent_stripping(ident, cur) == StripSuffix(ident) \in cur

\* __init__.py 96-101: the identifier, or the identifier with a virtual
\* suffix appended, is a current id.
IsCurrent(ident, cur) ==
    \/ ident \in cur
    \/ (ident \o "_low_battery") \in cur
    \/ (ident \o "_malfunction") \in cur
    \/ (ident \o "_debug") \in cur

\* __init__.py 94-112: the loop over one entry's identifiers.  An identifier
\* of another domain is skipped; the first alarmdotcom identifier either
\* matches (break) or has the entry removed.
RECURSIVE RemovesEntry(_, _)
RemovesEntry(identifiers, cur) ==
    IF identifiers = << >> THEN FALSE
    ELSE LET identifier == Head(identifiers)
         IN  IF identifier[1] = ADC_DOMAIN
             THEN ~IsCurrent(identifier[2], cur)
             ELSE RemovesEntry(Tail(identifiers), cur)

\* dr.async_entries_for_config_entry
EntriesForConfigEntry(registry, entry_id) == {d \in registry : entry_id \in d.config_entries}

DevEntry(id, identifiers, entries) ==
    [id |-> id, identifiers |-> identifiers, config_entries |-> entries]

\* Device entries an earlier run of the integration, an earlier version of it
\* or another integration may have registered.
RegUniverse ==
    {DevEntry("d_s1", <<<<ADC_DOMAIN, "s1">>>>, {ThisEntry}),
     DevEntry("d_s1_batt", <<<<ADC_DOMAIN, "s1_low_battery">>>>, {ThisEntry}),
     DevEntry("d_s9", <<<<ADC_DOMAIN, "s9">>>>, {ThisEntry}),
     DevEntry("d_s9_malf", <<<<ADC_DOMAIN, "s9_malfunction">>>>, {ThisEntry}),
     DevEntry("d_p1_batt", <<<<ADC_DOMAIN, "p1_low_battery">>>>, {ThisEntry}),
     DevEntry("d_l1", <<<<ADC_DOMAIN, "l1">>>>, {ThisEntry}),
     DevEntry("d_s2", <<<<ADC_DOMAIN, "s2">>>>, {ThisEntry}),
     DevEntry("d_mixed", <<<<"other", "s9">>, <<ADC_DOMAIN, "sys1">>>>, {ThisEntry}),
     DevEntry("d_foreign", <<<<"other", "zzz">>>>, {ThisEntry}),
     DevEntry("d_entry2", <<<<ADC_DOMAIN, "s9">>>>, {"entry2"})}

RegInit ==
    /\ reg_pc = "start"
    /\ reg_devices \in CompleteSnapshots
    /\ device_registry \in SUBSET RegUniverse
    /\ reg_removed = {}

\* Mutant: the removal set is only computed; the registry is left to the caller.
RegistryAfter_left_to_caller(registry, gone) == registry

\* device_registry.async_remove_device / entity_registry.async_remove called
\* for every orphan found: the registry without them.
RegistryAfter(registry, gone) == registry \ gone

\* The comparison against the device registry, as one step.
ReconcileDevices ==
    /\ UNCHANGED notReg
    /\ reg_pc = "start"
    /\ LET cur == current_device_ids(reg_devices)
           gone == {d \in EntriesForConfigEntry(device_registry, ThisEntry) :
                        RemovesEntry(d.identifiers, cur)}
       IN  /\ device_registry' = RegistryAfter(device_registry, gone)
           /\ reg_removed' = {d.id : d \in gone}
    /\ reg_pc' = "done"
    /\ UNCHANGED reg_devices

\* The host registers an entry again (a device of this or another integration).
RegisterDevice(d) ==
    /\ UNCHANGED notReg
    /\ reg_pc = "done"
    /\ d \notin device_registry
    /\ device_registry' = device_registry \cup {d}
    /\ reg_removed' = {}
    /\ reg_pc' = "start"
    /\ UNCHANGED reg_devices

CoordOff == CoordInit /\ raw = RawA

InitRegistry == CoordOff /\ PlatformOff /\ CleanOff /\ MigOff /\ NormOff /\ RegInit

NextRegistry ==
    \/ ReconcileDevices
    \/ \E d \in RegUniverse : RegisterDevice(d)

SpecRegistry == InitRegistry /\ [][NextRegistry]_vars

\* The alarmdotcom identifiers of a device entry.
AdcIdents(d) == {d.identifiers[i][2] : i \in {j \in 1..Len(d.identifiers) :
                                                 d.identifiers[j][1] = ADC_DOMAIN}}

RegBefore == device_registry \cup {d \in RegUniverse : d.id \in reg_removed}

SERVICE == "service"

Ent(entity_id, unique_id, domain, entry, device) ==
    [entity_id |-> entity_id, unique_id |-> unique_id, domain |-> domain,
     config_entry_id |-> entry, device_id |-> device]

Dvc(id, entries, type) == [id |-> id, config_entries |-> entries, entry_type |-> type]

EntityUniverse ==
    {Ent("lock.front", "l1", "lock", ThisEntry, "dev_front"),
     Ent("lock.gone", "l9", "lock", ThisEntry, "dev_gone"),
     Ent("lock.nouid", "", "lock", ThisEntry, "dev_nouid"),
     Ent("light.hall", "x1", "light", ThisEntry, "dev_gone"),
     Ent("lock.hub", "l8", "lock", ThisEntry, "dev_hub"),
     Ent("lock.shared", "l7", "lock", ThisEntry, "dev_shared"),
     Ent("lock.other", "l1", "lock", "entry2", "dev_other")}

DeviceUniverse ==
    {Dvc("dev_front", {ThisEntry}, PyNone),
     Dvc("dev_gone", {ThisEntry}, PyNone),
     Dvc("dev_nouid", {ThisEntry}, PyNone),
     Dvc("dev_hub", {ThisEntry}, SERVICE),
     Dvc("dev_shared", {ThisEntry, "entry2"}, PyNone),
     Dvc("dev_other", {"entry2"}, PyNone)}

\* util.py 42-51: the entity entries the first loop removes.
OrphanedEntities(entities, entry_id, platform, eids, uids) ==
    {e \in entities :
        /\ e.config_entry_id = entry_id
        /\ e.domain = platform
        /\ e.entity_id \notin eids
        /\ (e.unique_id \notin uids \/ ~Truthy(e.unique_id))}

\* util.py 54-66: the device entries the second loop removes, given the
\* entity entries left by the first.
OrphanedDevices(devices, entities, entry_id, platform) ==
    {d \in devices :
        /\ d.config_entries = {entry_id}
        /\ d.entry_type # SERVICE
        /\ LET device_entities == {e \in entities : e.device_id = d.id}
           IN  \/ device_entities = {}
               \/ \A e \in device_entities : e.domain = platform /\ ~Truthy(e.unique_id)}

CleanInit ==
    /\ cl_pc = "start"
    /\ cl_platform \in {"lock", "light"}
    /\ cl_current_eids \in SUBSET {"lock.front", "lock.nouid"}
    /\ cl_current_uids \in SUBSET {"l1"}
    /\ cl_entities \in SUBSET EntityUniverse
    /\ cl_devices = DeviceUniverse
    /\ cl_removed_entities = {}
    /\ cl_removed_devices = {}

\* One call of cleanup_orphaned_entities_and_devices.
CleanupOrphaned ==
    /\ UNCHANGED notClean
    /\ cl_pc = "start"
    /\ LET gone == OrphanedEntities(cl_entities, ThisEntry, cl_platform,
                                    cl_current_eids, cl_current_uids)
           left == RegistryAfter(cl_entities, gone)
           dead == OrphanedDevices(cl_devices, left, ThisEntry, cl_platform)
       IN  /\ cl_entities' = left
           /\ cl_removed_entities' = {e.entity_id : e \in gone}
           /\ cl_devices' = RegistryAfter(cl_devices, dead)
           /\ cl_removed_devices' = {d.id : d \in dead}
    /\ cl_pc' = "done"
    /\ UNCHANGED <<cl_platform, cl_current_eids, cl_current_uids>>

\* The next platform's setup calls it on the registries as they now are.
NextPlatform(p) ==
    /\ UNCHANGED notClean
    /\ cl_pc = "done"
    /\ p # cl_platform
    /\ cl_platform' = p
    /\ cl_removed_entities' = {}
    /\ cl_removed_devices' = {}
    /\ cl_pc' = "start"
    /\ UNCHANGED <<cl_current_eids, cl_current_uids, cl_entities, cl_devices>>

InitCleanup == CoordOff /\ PlatformOff /\ RegOff /\ MigOff /\ NormOff /\ CleanInit

NextCleanup ==
    \/ CleanupOrphaned
    \/ \E p \in {"lock", "light"} : NextPlatform(p)

SpecCleanup == InitCleanup /\ [][NextCleanup]_vars

DevicesBefore == cl_devices \cup {d \in DeviceUniverse : d.id \in cl_removed_devices}

\* C10 as written: after the call every device entry of only this config
\* entry that is left with no entity and is not a service device has been
\* removed, and no service device and no device that still has an entity has
\* been removed.
C10_AsClaimed ==
    cl_pc = "done" =>
        \A d \in DevicesBefore :
            LET remaining == {e \in cl_entities : e.device_id = d.id}
            IN  /\ (d.config_entries = {ThisEntry} /\ d.entry_type # SERVICE /\ remaining = {})
                      => d.id \in cl_removed_devices
                /\ (d.entry_type = SERVICE \/ remaining # {})
                      => d.id \notin cl_removed_devices

(***************************************************************************)
(* Both reconcilers together: the registry comparison of async_setup_entry *)
(* and the per-platform cleanup.                                           *)
(***************************************************************************)
InitReconcilers == InitRegistry \/ InitCleanup

NextReconcilers == NextRegistry \/ NextCleanup

SpecReconcilers == InitReconcilers /\ [][NextReconcilers]_vars

RegistryRun == reg_pc = "start" /\ reg_pc' = "done"

CleanupRun == cl_pc = "start" /\ cl_pc' = "done"

\* C11 as written: a reconcile run changes neither the snapshot / current ids
\* nor the external registries.
C11_AsClaimed ==
    [][/\ RegistryRun => (reg_devices' = reg_devices /\ device_registry' = device_registry)
       /\ CleanupRun => /\ cl_current_eids' = cl_current_eids
                        /\ cl_current_uids' = cl_current_uids
                        /\ cl_entities' = cl_entities
                        /\ cl_devices' = cl_devices]_vars

\* C11 amended: a reconcile run leaves the snapshot and the current ids
\* unchanged, but it removes the orphans from the external registries itself:
\* after the run each registry is the registry before without exactly the
\* entries the run found orphaned.
C11_ReadsSnapshotWritesRegistry ==
    [][/\ RegistryRun =>
            /\ reg_devices' = reg_devices
            /\ device_registry' \subseteq device_registry
            /\ {d.id : d \in device_registry \ device_registry'} = reg_removed'
            /\ \A d \in device_registry' : d.id \notin reg_removed'
       /\ CleanupRun =>
            /\ cl_current_eids' = cl_current_eids
            /\ cl_current_uids' = cl_current_uids
            /\ cl_platform' = cl_platform
            /\ cl_entities' \subseteq cl_entities
            /\ {e.entity_id : e \in cl_entities \ cl_entities'} = cl_removed_entities'
            /\ cl_devices' \subseteq cl_devices
            /\ {d.id : d \in cl_devices \ cl_devices'} = cl_removed_devices']_vars

\* C11 witness: a run of the registry comparison has deleted an entry from
\* the device registry and kept another.
C11_Witness ==
    /\ reg_pc = "done"
    /\ reg_removed # {}
    /\ device_registry # {}
    /\ \A d \in device_registry : d.id \notin reg_removed

(***************************************************************************)
(* async_migrate_entry (__init__.py 135-224): the stored options of a      *)
(* config entry are rewritten version by version.                          *)
(* An option value is a record tagged with its Python type, so that str(), *)
(* bool() and comparisons act on it as they act on the value.              *)
(***************************************************************************)
OptNone == [none |-> ""]

OptStr(x) == [str |-> x]

OptInt(n) == [int |-> n]

OptBool(b) == [bool |-> b]

OptList(l) == [list |-> l]

IsA(x, type) == DOMAIN x = {type}

\* bool(value)
OptTruthy(x) ==
    CASE IsA(x, "none") -> FALSE
      [] IsA(x, "str") -> x.str # ""
      [] IsA(x, "int") -> x.int # 0
      [] IsA(x, "bool") -> x.bool
      [] IsA(x, "list") -> x.list # << >>

DigitChars == <<"0", "1", "2", "3", "4", "5", "6", "7", "8", "9">>

RECURSIVE DecStr(_)
DecStr(n) ==
    IF n < 10 THEN DigitChars[n + 1]
    ELSE DecStr(n \div 10) \o DigitChars[(n % 10) + 1]

\* Mutant: the arm code is stored as it was found.
PyStr_as_found(x) == x

\* str(value), for the values an arm code can hold
PyStr(x) ==
    CASE IsA(x, "str") -> x
      [] IsA(x, "int") -> OptStr(DecStr(x.int))
      [] IsA(x, "bool") -> OptStr(IF x.bool THEN "True" ELSE "False")
      [] IsA(x, "none") -> OptStr("None")

\* options.get(key)
OptGet(options, key) == IF key \in DOMAIN options THEN options[key] ELSE OptNone

\* value in [...] / value == "..." against string literals
OptIn(x, literals) == IsA(x, "str") /\ x.str \in literals

CONF_ARM_CODE == "arm_code"

CONF_ARM_HOME == "arm_home_options"

CONF_ARM_AWAY == "arm_away_options"

CONF_ARM_NIGHT == "arm_night_options"

\* ADCFlowHandler.VERSION
VERSION == 3

\* __init__.py 142-150
v2_options(options) ==
    LET arm_code == OptGet(options, CONF_ARM_CODE)
        o1 == DictSet(options, "use_arm_code", OptBool(OptTruthy(arm_code)))
    IN  DictSet(o1, CONF_ARM_CODE, IF OptTruthy(arm_code) THEN PyStr(arm_code) ELSE OptStr(""))

\* One list of arm options: bypass, silent, delay, in that order.
ArmOptions(o, on) ==
    (IF OptIn(OptGet(o, "force_bypass"), on) THEN <<"bypass">> ELSE << >>)
    \o (IF OptIn(OptGet(o, "silent_arming"), on) THEN <<"silent">> ELSE << >>)
    \o (IF ~OptIn(OptGet(o, "no_entry_delay"), on) THEN <<"delay">> ELSE << >>)

\* Purge of one deprecated option: set to None when truthy.
Purge(o, key) == IF OptTruthy(OptGet(o, key)) THEN DictSet(o, key, OptNone) ELSE o

\* __init__.py 164-217
v3_options(options) ==
    LET o1 == IF ~OptTruthy(OptGet(options, "use_arm_code"))
              THEN DictSet(options, CONF_ARM_CODE, OptNone) ELSE options
        o2 == DictSet(o1, CONF_ARM_HOME, OptList(ArmOptions(o1, {"Stay Only", "Always"})))
        o3 == DictSet(o2, CONF_ARM_AWAY, OptList(ArmOptions(o2, {"Away Only", "Always"})))
        o4 == DictSet(o3, CONF_ARM_NIGHT, OptList(ArmOptions(o3, {"Always"})))
    IN  Purge(Purge(Purge(Purge(o4, "use_arm_code"), "force_bypass"),
                    "silent_arming"), "no_entry_delay")

\* Mutant: the first step leaves the stored version at 1.
MigrateV1_version_kept(entry) ==
    IF entry.version = 1
    THEN [version |-> 1, options |-> v2_options(entry.options)]
    ELSE entry

\* `if config_entry.version == 1:` (__init__.py 138-160)
MigrateV1(entry) ==
    IF entry.version = 1
    THEN [version |-> 2, options |-> v2_options(entry.options)]
    ELSE entry

\* Mutant: the second step leaves the stored version at 2.
MigrateV2_version_kept(entry) ==
    IF entry.version = 2
    THEN [version |-> 2, options |-> v3_options(entry.options)]
    ELSE entry

\* `if config_entry.version == 2:` (__init__.py 162-222)
MigrateV2(entry) ==
    IF entry.version = 2
    THEN [version |-> 3, options |-> v3_options(entry.options)]
    ELSE entry

\* The whole call: the second test sees the version the first step wrote.
async_migrate_entry(entry) == MigrateV2(MigrateV1(entry))

\* The steps one call runs on entry, in the order it runs them.
StepsRun(entry) ==
    (IF entry.version = 1 THEN <<1>> ELSE << >>)
    \o (IF MigrateV1(entry).version = 2 THEN <<2>> ELSE << >>)

\* Stored option values, well formed and not; Absent: the key is missing.
Absent == [absent |-> ""]

ArmCodeValues == {Absent, OptNone, OptInt(1234), OptInt(0), OptStr("1234"), OptStr("")}

LegacyArmingValues ==
    {Absent, OptStr("Stay Only"), OptStr("Away Only"), OptStr("Always"), OptInt(7)}

UseArmCodeValues == {Absent, OptBool(TRUE), OptBool(FALSE)}

StoredVersions == {1, 2, 3, 4}

OptionsOf(code, use, bypass, silent, delay) ==
    LET all == [k \in {CONF_ARM_CODE, "use_arm_code", "force_bypass", "silent_arming",
                       "no_entry_delay"} |->
                   CASE k = CONF_ARM_CODE -> code
                     [] k = "use_arm_code" -> use
                     [] k = "force_bypass" -> bypass
                     [] k = "silent_arming" -> silent
                     [] k = "no_entry_delay" -> delay]
    IN  [k \in {x \in DOMAIN all : ~IsA(all[x], "absent")} |-> all[k]]

MigInit ==
    /\ mig_pc = "start"
    /\ \E ver \in StoredVersions, code \in ArmCodeValues, use \in UseArmCodeValues,
          bypass, silent, delay \in LegacyArmingValues :
          mig_entry = [version |-> ver,
                       options |-> OptionsOf(code, use, bypass, silent, delay)]
    /\ mig_before = mig_entry
    /\ mig_steps = << >>

\* The host calls async_migrate_entry on the stored entry.
MigrateEntry ==
    /\ UNCHANGED notMig
    /\ mig_pc \in {"start", "migrated"}
    /\ mig_before' = mig_entry
    /\ mig_steps' = StepsRun(mig_entry)
    /\ mig_entry' = async_migrate_entry(mig_entry)
    /\ mig_pc' = "migrated"

InitMigrate == CoordOff /\ PlatformOff /\ RegOff /\ CleanOff /\ NormOff /\ MigInit

NextMigrate == MigrateEntry

SpecMigrate == InitMigrate /\ [][NextMigrate]_vars

ArmLists == {CONF_ARM_HOME, CONF_ARM_AWAY, CONF_ARM_NIGHT}

\* C12: a call of async_migrate_entry on an entry stored at version 1 runs
\* step 1 and then step 2, on an entry at version 2 it runs step 2 only, and
\* in both cases, whatever the options hold, it ends at version 3 with the
\* three arm option lists written; at any other version no step runs.
C12_OrderedChain ==
    mig_pc = "migrated" =>
        /\ mig_before.version = 1 => mig_steps = <<1, 2>>
        /\ mig_before.version = 2 => mig_steps = <<2>>
        /\ mig_before.version \notin {1, 2} => mig_steps = << >>
        /\ mig_before.version \in {1, 2} =>
              /\ mig_entry.version = VERSION
              /\ \A k \in ArmLists :
                    k \in DOMAIN mig_entry.options /\ IsA(mig_entry.options[k], "list")

\* C12 witness: a version-1 entry with a malformed legacy value has gone
\* through both steps.
C12_Witness ==
    /\ mig_pc = "migrated"
    /\ mig_before.version = 1
    /\ OptGet(mig_before.options, "force_bypass") = OptInt(7)
    /\ mig_steps = <<1, 2>>
    /\ mig_entry.version = VERSION

\* C13: a call never lowers the stored version, its result is a fixed point
\* of the migration, and an entry already at the target version is left as
\* it is, version and options.
C13_MonotoneIdempotent ==
    mig_pc = "migrated" =>
        /\ mig_entry.version >= mig_before.version
        /\ async_migrate_entry(mig_entry) = mig_entry
        /\ mig_before.version = VERSION => mig_entry = mig_before

\* C13 witness: a second call has run on the result of a migration and left
\* it unchanged.
C13_Witness ==
    /\ mig_pc = "migrated"
    /\ mig_steps = << >>
    /\ mig_before = mig_entry
    /\ mig_entry.version = VERSION
    /\ CONF_ARM_HOME \in DOMAIN mig_entry.options
    /\ OptGet(mig_entry.options, CONF_ARM_CODE) = OptStr("1234")

\* The scenario's stored entry: version 1, arm_code = 1234 and nothing else.
ScenarioEntry == [version |-> 1, options |-> [k \in {CONF_ARM_CODE} |-> OptInt(1234)]]

\* C14 as written: the migrated scenario entry has arm_code "1234", empty
\* arm option lists and the latest version.
C14_AsClaimed ==
    (mig_pc = "migrated" /\ mig_before = ScenarioEntry) =>
        /\ mig_entry.version = VERSION
        /\ mig_entry.options[CONF_ARM_CODE] = OptStr("1234")
        /\ \A k \in ArmLists : mig_entry.options[k] = OptList(<< >>)

\* C14 amended: the migrated scenario entry has arm_code "1234", the latest
\* version, and each of the home, away and night lists is ["delay"], since the
\* legacy no_entry_delay option was not set.
C14_ScenarioDelayLists ==
    (mig_pc = "migrated" /\ mig_before = ScenarioEntry) =>
        /\ mig_entry.version = VERSION
        /\ mig_entry.options[CONF_ARM_CODE] = OptStr("1234")
        /\ \A k \in ArmLists : mig_entry.options[k] = OptList(<<"delay">>)
        /\ mig_entry.options["use_arm_code"] = OptNone

\* C14 witness: the scenario entry has been migrated.
C14_Witness ==
    /\ mig_pc = "migrated"
    /\ mig_before = ScenarioEntry
    /\ mig_entry.version = VERSION

(***************************************************************************)
(* The normaliser on its own: passes of IntController.async_update over    *)
(* the library's device lists (controller.py 270-649).                     *)
(***************************************************************************)
TriState == {PyNone, PyFalse, PyTrue}

\* The scenario payload: one partition and one contact sensor.
ScenarioRaw ==
    [systems      |-> << >>,
     partitions   |-> <<Dev("p1", "Alarm", "DISARMED", PyNone, PyNone, PyNone, PyNone, PyNone, "DISARMED")>>,
     sensors      |-> <<Dev("s1", "Front Door", "CLOSED", PyFalse, "p1", PyFalse, PyFalse, "contact_sensor", PyNone)>>,
     locks        |-> << >>,
     lights       |-> << >>,
     garage_doors |-> << >>,
     cameras      |-> << >>]

PhoneSensor == Dev("s2", "Phone", "UNKNOWN", PyTrue, "p1", PyTrue, PyFalse, "mobile_phone", PyNone)

\* Device lists with every combination of null and non-null malfunction and
\* battery flags, with and without a blacklisted sensor, a lock, a light and
\* a garage door, and with parents that are present, missing (None) or unknown.
GeneratedPayloads ==
    {[systems      |-> <<Dev("sys1", "Home", PyNone, PyFalse, PyNone, PyNone, PyNone, PyNone, PyNone)>>,
      partitions   |-> <<Dev("p1", "Alarm", "DISARMED", pm, pp, PyNone, PyNone, PyNone, "DISARMED")>>,
      sensors      |-> <<Dev("s1", "Front Door", "CLOSED", sm, sp, sbl, sbc, "contact_sensor", PyNone)>> \o phone,
      locks        |-> lk,
      lights       |-> IF lg THEN <<Dev("g1", "Lamp", "ON", PyNone, "p1", PyNone, PyNone, PyNone, "ON")>> ELSE << >>,
      garage_doors |-> IF lg THEN <<Dev("d1", "Garage", "CLOSED", PyTrue, "p1", PyNone, PyNone, PyNone, "CLOSED")>> ELSE << >>,
      cameras      |-> << >>] :
        pm \in TriState, pp \in {"sys1", PyNone}, sm \in TriState, sp \in {"p1", "p9"},
        sbl \in TriState, sbc \in {PyNone, PyFalse}, phone \in {<< >>, <<PhoneSensor>>},
        lg \in BOOLEAN,
        lk \in {<< >>} \cup
               {<<Dev("l1", "Back Lock", "LOCKED", lm, "p1", lbl, lbc, PyNone, "LOCKED")>> :
                    lm \in {PyNone, PyFalse}, lbl \in {PyNone, PyTrue}, lbc \in {PyNone, PyFalse}}}

NormPayloads == GeneratedPayloads \cup RawPayloads \cup {ScenarioRaw}

\* Mutant: the collections are attributes of the controller, kept between calls.
StartCollections_kept(previous) == previous

\* controller.py 270-284: every call starts from empty local collections.
StartCollections(previous) == EmptyDevices

\* The assignments entity_data[id] = ... and *_ids.add(id) of one pass, made
\* on the collections the pass started from.
FillCollections(start, filled) ==
    [k \in DOMAIN filled |->
        IF k = "entity_data" THEN DictUpdate(start[k], filled[k])
        ELSE start[k] \cup filled[k]]

NormInit ==
    /\ nz_pc = "start"
    /\ nz_raw \in NormPayloads
    /\ nz_out = EmptyDevices
    /\ nz_prev = EmptyDevices

\* One call of async_update after the remote call returned.
NormalizePass ==
    /\ UNCHANGED notNorm
    /\ nz_pc \in {"start", "once"}
    /\ nz_prev' = nz_out
    /\ nz_out' = FillCollections(StartCollections(nz_out), Normalize(nz_raw))
    /\ nz_pc' = IF nz_pc = "start" THEN "once" ELSE "twice"
    /\ UNCHANGED nz_raw

\* The device state upstream changes between refreshes.
RawChange(r) ==
    /\ UNCHANGED notNorm
    /\ nz_pc = "twice"
    /\ r # nz_raw
    /\ nz_raw' = r
    /\ nz_pc' = "start"
    /\ UNCHANGED <<nz_out, nz_prev>>

InitNormalize == CoordOff /\ PlatformOff /\ RegOff /\ CleanOff /\ MigOff /\ NormInit

NextNormalize ==
    \/ NormalizePass
    \/ \E r \in RawPayloads : RawChange(r)

SpecNormalize == InitNormalize /\ [][NextNormalize]_vars

\* A pass has run on the device lists as they are now.
Normalized == nz_pc # "start"

RawBatteryParents == Range(SensorsKept(nz_raw)) \cup Range(nz_raw.locks)

RawMalfunctionParents ==
    RawBatteryParents \cup Range(nz_raw.partitions) \cup Range(nz_raw.lights)
        \cup Range(nz_raw.garage_doors)

RawDevices == RawMalfunctionParents \cup Range(nz_raw.systems)

\* The entities of one index set of the snapshot.
EntitiesIn(index) == {nz_out.entity_data[u] : u \in index \cap DOMAIN nz_out.entity_data}

\* C15 as written: a sensor or lock has exactly one battery entity, named
\* parent + "_low_battery" and pointing at it, when both of its battery flags
\* are non-null, and none when either flag is null.
C15_AsClaimed ==
    Normalized =>
        \A d \in RawBatteryParents :
            LET mine == {e \in EntitiesIn(nz_out.low_battery_ids) : e.parent_id = d.id_}
            IN  IF d.battery_low # PyNone /\ d.battery_critical # PyNone
                THEN /\ Cardinality(mine) = 1
                     /\ \A e \in mine : e.unique_id = d.id_ \o "_low_battery"
                ELSE mine = {}

\* C16: a sensor with a blacklisted subtype is in no index set and not in the
\* entity map, and no battery, malfunction or debug entity is made for it,
\* whatever its malfunction and battery fields hold.
C16_BlacklistExcluded ==
    Normalized =>
        \A i \in 1..Len(nz_raw.sensors) :
            LET d == nz_raw.sensors[i]
            IN  d.device_subtype \in SENSOR_SUBTYPE_BLACKLIST =>
                    /\ d.id_ \notin DOMAIN nz_out.entity_data
                    /\ \A k \in (DOMAIN nz_out) \ {"entity_data"} : d.id_ \notin nz_out[k]
                    /\ \A u \in DOMAIN nz_out.entity_data :
                          /\ Get(nz_out.entity_data[u], "parent_id") # d.id_
                          /\ u \notin {d.id_ \o x : x \in VirtualSuffixes}

\* C16 witness: a pass has run on lists holding a blacklisted sensor whose
\* malfunction and battery fields are non-null, next to a sensor that is kept.
C16_Witness ==
    /\ Normalized
    /\ PhoneSensor \in Range(nz_raw.sensors)
    /\ PhoneSensor.malfunction # PyNone /\ PhoneSensor.battery_low # PyNone
    /\ "s1_low_battery" \in nz_out.low_battery_ids

\* A raw device's parent is in the device lists.
Resolvable(d) == d.parent \in {x.id_ : x \in RawDevices}

\* C17 as written: every parent_id that is set names an entity of the same
\* snapshot, and a device whose parent is not in the payload is left out
\* together with its virtual children.
C17_AsClaimed ==
    Normalized =>
        /\ \A u \in DOMAIN nz_out.entity_data :
              LET parent == Get(nz_out.entity_data[u], "parent_id")
              IN  parent # PyNone => parent \in (DOMAIN nz_out.entity_data) \ {u}
        /\ \A d \in RawMalfunctionParents :
              ~Resolvable(d) =>
                  /\ d.id_ \notin DOMAIN nz_out.entity_data
                  /\ \A x \in VirtualSuffixes : (d.id_ \o x) \notin DOMAIN nz_out.entity_data

\* C17 amended: every entity is stored under its own id; every partition,
\* sensor (not blacklisted), lock, light and garage door of the payload is in
\* the snapshot with its parent_id copied as the payload gives it, resolvable
\* or not, together with its malfunction and debug children; and every
\* virtual child's parent_id names an entity of the same snapshot.
C17_ParentsCopied ==
    Normalized =>
        /\ \A u \in DOMAIN nz_out.entity_data : nz_out.entity_data[u].unique_id = u
        /\ \A d \in RawMalfunctionParents :
              /\ d.id_ \in DOMAIN nz_out.entity_data
              /\ nz_out.entity_data[d.id_].parent_id = d.parent
              /\ (d.id_ \o "_malfunction") \in DOMAIN nz_out.entity_data
              /\ (d.id_ \o "_debug") \in DOMAIN nz_out.entity_data
        /\ \A e \in EntitiesIn(nz_out.low_battery_ids \cup nz_out.malfunction_ids
                                  \cup nz_out.debug_ids) :
              e.parent_id \in DOMAIN nz_out.entity_data

\* C17 witness: a partition without a system id and a sensor whose partition
\* is not in the payload are both in the snapshot.
C17_Witness ==
    /\ Normalized
    /\ "p1" \in DOMAIN nz_out.entity_data /\ nz_out.entity_data["p1"].parent_id = PyNone
    /\ "s1" \in DOMAIN nz_out.entity_data /\ nz_out.entity_data["s1"].parent_id = "p9"
    /\ "p9" \notin DOMAIN nz_out.entity_data
    /\ "s1_malfunction" \in DOMAIN nz_out.entity_data

\* C18 as written: a sensor, lock, partition, light or garage door has a
\* malfunction entity, named parent + "_malfunction" and carrying the
\* parent's flag, when its malfunction field is non-null, and none when the
\* field is null.
C18_AsClaimed ==
    Normalized =>
        \A d \in RawMalfunctionParents :
            LET mine == {e \in EntitiesIn(nz_out.malfunction_ids) : e.parent_id = d.id_}
            IN  IF d.malfunction # PyNone
                THEN \E e \in mine : /\ e.unique_id = d.id_ \o "_malfunction"
                                     /\ e.state = d.malfunction
                ELSE mine = {}

\* C19 as written: the scenario payload gives a snapshot of exactly four
\* entries: the partition, the sensor, a battery entity with state False and
\* a malfunction entity with state False.
C19_AsClaimed ==
    (Normalized /\ nz_raw = ScenarioRaw) =>
        /\ DOMAIN nz_out.entity_data = {"p1", "s1", "s1_low_battery", "s1_malfunction"}
        /\ nz_out.entity_data["s1_low_battery"].state = PyFalse
        /\ nz_out.entity_data["s1_malfunction"].state = PyFalse

\* C20: the devices a pass returns are those of the device lists it ran on,
\* whatever earlier passes returned, and a second pass on unchanged lists
\* returns the same devices as the first.
C20_IdempotentNormalization ==
    /\ Normalized => nz_out = Normalize(nz_raw)
    /\ nz_pc = "twice" => nz_out = nz_prev

\* C20 witness: two passes have run on the same lists after the lists had
\* changed, and returned the same non-empty devices.
C20_Witness ==
    /\ nz_pc = "twice"
    /\ nz_raw = RawB
    /\ nz_out = nz_prev
    /\ "l1_low_battery" \in DOMAIN nz_out.entity_data

(***************************************************************************)
(* Entity command handlers: switch.py, number.py, select.py, scene.py of   *)
(* the coordinator revisions; lock.py, alarm_control_panel.py, cover.py,   *)
(* light.py, valve.py of the websocket revision.                           *)
(***************************************************************************)
Platforms ==
    {"switch", "number", "select", "scene", "lock", "alarm_control_panel",
     "cover", "light", "valve"}

\* The commands each platform's handlers send.
Commands(platform) ==
    CASE platform = "switch" -> {"turn_on", "turn_off"}
      [] platform = "number" -> {"set_value"}
      [] platform = "select" -> {"select_option"}
      [] platform = "scene" -> {"execute"}
      [] platform = "lock" -> {"lock", "unlock"}
      [] platform = "alarm_control_panel" -> {"disarm", "arm_away", "arm_stay", "arm_night"}
      [] platform \in {"cover", "valve"} -> {"open", "close"}
      [] platform = "light" -> {"turn_on", "turn_off"}

\* Errors the library raises while it executes a command.
CommandErrors ==
    {"ServiceUnavailable", "UnexpectedResponse", "PermissionError", "AuthenticationFailed"}

\* The platforms whose handlers take a code (lock.py 226-240,
\* alarm_control_panel.py 289-319).
CodePlatforms == {"lock", "alarm_control_panel"}

ConfiguredArmCodes == {OptNone, OptStr(""), OptStr("1234")}

SuppliedCodes == {OptNone, OptStr("1234"), OptStr("0000")}

\* Mutant: every code is accepted.
validate_code_any(arm_code, code) == TRUE

\* AdcLockEntity._validate_code, AdcAlarmControlPanelEntity._validate_code.
validate_code(arm_code, code) ==
    arm_code \in {OptNone, OptStr("")} \/ code = arm_code

\* alarm_control_panel.control_fn's own test: it raises for a wrong code.
control_fn_rejects(arm_code, code) ==
    code # arm_code /\ arm_code \notin {OptNone, OptStr("")}

\* Whether the handler of the platform sends the command at all.
Sends(platform, arm_code, code) ==
    IF platform \in CodePlatforms THEN validate_code(arm_code, code) ELSE TRUE

\* Mutant: every control_fn re-raises what the library raised.
control_fn_raises_unchanged(platform, exc) == exc

\* What the handler raises to its caller when the library raises exc:
\* alarm_control_panel.control_fn wraps two errors, the control_fn of lock,
\* cover, light and valve re-raises, the other handlers catch nothing.
control_fn_raises(platform, exc) ==
    IF platform = "alarm_control_panel" /\ exc \in {"ServiceUnavailable", "UnexpectedResponse"}
    THEN "InvalidStateError"
    ELSE exc

\* The handlers that await coordinator.async_refresh() after the command
\* (switch.py 121, 130); no other handler calls the coordinator.
RefreshesAfter(platform) == platform = "switch"

\* A service call reaches the entity's handler.
Dispatch(platform, command, code) ==
    /\ UNCHANGED notCmd
    /\ setup = "ok"
    /\ cmd_pc = "idle"
    /\ command \in Commands(platform)
    /\ platform \in CodePlatforms \/ code = OptNone
    /\ cmd_call' = [platform |-> platform, command |-> command, code |-> code]
    /\ cmd_fetch' = 0
    /\ IF Sends(platform, cmd_arm_code, code)
       THEN IF platform = "alarm_control_panel" /\ control_fn_rejects(cmd_arm_code, code)
            THEN /\ cmd_pc' = "done"
                 /\ cmd_log' = << >>
                 /\ cmd_result' = "ServiceValidationError"
            ELSE /\ cmd_pc' = "sending"
                 /\ cmd_log' = <<"send">>
                 /\ cmd_result' = "none"
       ELSE /\ cmd_pc' = "done"
            /\ cmd_log' = << >>
            /\ cmd_result' = "returned"
    /\ UNCHANGED <<cmd_arm_code, coordVars>>

\* The library's command call returns.
CommandReturns ==
    /\ UNCHANGED notCmd
    /\ cmd_pc = "sending"
    /\ cmd_log' = Append(cmd_log, "returned")
    /\ IF RefreshesAfter(cmd_call.platform)
       THEN cmd_pc' = "refresh" /\ UNCHANGED cmd_result
       ELSE cmd_pc' = "done" /\ cmd_result' = "returned"
    /\ UNCHANGED <<cmd_arm_code, cmd_call, cmd_fetch, coordVars>>

\* The library's command call raises exc.
CommandRaises(exc) ==
    /\ UNCHANGED notCmd
    /\ cmd_pc = "sending"
    /\ cmd_log' = Append(cmd_log, exc)
    /\ cmd_pc' = "done"
    /\ cmd_result' = control_fn_raises(cmd_call.platform, exc)
    /\ UNCHANGED <<cmd_arm_code, cmd_call, cmd_fetch, coordVars>>

\* The handler awaits coordinator.async_refresh(): a fetch of its own when
\* none is running, the running one otherwise.
CommandRefresh ==
    /\ UNCHANGED notCmd
    /\ cmd_pc = "refresh"
    /\ Running(cstate)
    /\ cmd_pc' = "awaiting"
    /\ cmd_log' = Append(cmd_log, "refresh")
    /\ IF StartsFetch(cstate)
       THEN BeginFetch(FALSE) /\ cmd_fetch' = nfetch + 1
       ELSE cmd_fetch' = TheInflight /\ UNCHANGED <<cstate, inflight, nfetch>>
    /\ UNCHANGED <<cmd_arm_code, cmd_call, cmd_result>>
    /\ UNCHANGED <<setup, setupCause, timerArmed, callers, data, observed, raw, last>>

\* The awaited fetch is over: the handler returns.
CommandRefreshed ==
    /\ UNCHANGED notCmd
    /\ cmd_pc = "awaiting"
    /\ cmd_fetch \notin DOMAIN inflight
    /\ cmd_pc' = "done"
    /\ cmd_log' = Append(cmd_log, "refreshed")
    /\ cmd_result' = "returned"
    /\ UNCHANGED <<cmd_arm_code, cmd_call, cmd_fetch, coordVars>>

\* The caller has its answer; the entity waits for the next call.
CommandDone ==
    /\ UNCHANGED notCmd
    /\ cmd_pc = "done"
    /\ cmd_pc' = "idle"
    /\ cmd_call' = NoCall
    /\ cmd_log' = << >>
    /\ cmd_result' = "none"
    /\ cmd_fetch' = 0
    /\ UNCHANGED <<cmd_arm_code, coordVars>>

CmdInit ==
    /\ cmd_pc = "idle"
    /\ cmd_arm_code \in ConfiguredArmCodes
    /\ cmd_call = NoCall
    /\ cmd_log = << >>
    /\ cmd_result = "none"
    /\ cmd_fetch = 0

InitCommand ==
    CoordOff /\ RegOff /\ CleanOff /\ MigOff /\ NormOff /\ HubOff /\ ViewOff /\ CmdInit

NextCommand ==
    \/ SetupLoginOk
    \/ SetupFirstRefresh
    \/ \E f \in 1..MaxFetch, exc \in FetchErrors : FetchRaises(f, exc)
    \/ \E f \in 1..MaxFetch : FetchReturns(f)
    \/ \E f \in 1..MaxFetch : NormalizeReal(f)
    \/ \E f \in 1..MaxFetch : NormalizeMeta(f)
    \/ \E f \in 1..MaxFetch : ReturnDevices(f)
    \/ TimerTick
    \/ \E p \in Platforms : \E c \in Commands(p), code \in SuppliedCodes : Dispatch(p, c, code)
    \/ CommandReturns
    \/ \E exc \in CommandErrors : CommandRaises(exc)
    \/ CommandRefresh
    \/ CommandRefreshed
    \/ CommandDone

SpecCommand == InitCommand /\ [][NextCommand]_vars

\* The handler's call came back to its caller normally after the command was sent.
Dispatched == cmd_pc = "done" /\ cmd_result = "returned" /\ cmd_log # << >>

\* C21 as claimed: every dispatched command is followed, before its handler
\* completes, by a refresh of the coordinator started after the command call
\* returned.
C21_AsClaimed ==
    Dispatched =>
        \E i, j \in 1..Len(cmd_log) :
            /\ i < j
            /\ cmd_log[i] = "returned"
            /\ cmd_log[j] = "refresh"

\* The step in which the library's command call raises: the error is the last
\* entry of the handler's log.
CommandFailed ==
    /\ cmd_pc = "sending"
    /\ cmd_pc' = "done"
    /\ cmd_log'[Len(cmd_log')] \in CommandErrors

\* C22 as claimed: an error the library raises while executing a partition,
\* lock, cover or light command reaches the handler's caller as that same
\* error, and the coordinator makes no transition.
C22_AsClaimed ==
    [][(CommandFailed /\ cmd_call.platform \in {"alarm_control_panel", "lock", "cover", "light"})
          => (cmd_result' = cmd_log'[Len(cmd_log')] /\ UNCHANGED coordVars)]_vars

\* C22: the error reaches the caller unchanged from the lock, cover, light and
\* valve handlers; the partition handler turns ServiceUnavailable and
\* UnexpectedResponse into InvalidStateError and passes every other error
\* unchanged; in no case does the coordinator make a transition.
C22_ErrorsReachCaller ==
    [][CommandFailed =>
          LET exc == cmd_log'[Len(cmd_log')]
          IN  /\ UNCHANGED coordVars
              /\ cmd_call.platform \in {"lock", "cover", "light", "valve"}
                    => cmd_result' = exc
              /\ (cmd_call.platform = "alarm_control_panel"
                    /\ exc \in {"ServiceUnavailable", "UnexpectedResponse"})
                    => cmd_result' = "InvalidStateError"
              /\ (cmd_call.platform = "alarm_control_panel"
                    /\ exc \notin {"ServiceUnavailable", "UnexpectedResponse"})
                    => cmd_result' = exc]_vars

\* A partition command failed with ServiceUnavailable and its caller got
\* InvalidStateError while the coordinator stayed Idle.
C22_Witness ==
    /\ cmd_pc = "done"
    /\ cmd_call.platform = "alarm_control_panel"
    /\ cmd_log = <<"send", "ServiceUnavailable">>
    /\ cmd_result = "InvalidStateError"
    /\ cstate = "Idle"

\* The step in which a fetch ends with a PermissionError of the library.
FetchPermissionError == last' # last /\ last'.remote = "PermissionError"

\* C23 as claimed: a PermissionError reaches only the caller of a command; it
\* never puts the coordinator into Failed(Auth) and never stops the scheduled
\* refreshes.
C23_AsClaimed ==
    [][/\ (CommandFailed /\ cmd_log'[Len(cmd_log')] = "PermissionError")
            => (cmd_result' = "PermissionError" /\ UNCHANGED coordVars)
       /\ FetchPermissionError
            => (cstate' # "FailedAuth" /\ timerArmed' = timerArmed)]_vars

\* C23: a PermissionError raised by a command reaches the caller of that
\* command and leaves the coordinator alone; a PermissionError raised by the
\* fetch is raised as ConfigEntryAuthFailed and puts the coordinator into
\* Failed(Auth), with the interval timer no longer armed (on the first refresh
\* the setup fails with ConfigEntryAuthFailed).
C23_PermissionErrorByPath ==
    [][/\ (CommandFailed /\ cmd_log'[Len(cmd_log')] = "PermissionError")
            => (cmd_result' = "PermissionError" /\ UNCHANGED coordVars)
       /\ FetchPermissionError
            => /\ last'.raised = "ConfigEntryAuthFailed"
               /\ cstate' = "FailedAuth"
               /\ IF last'.first
                  THEN setup' = "ConfigEntryAuthFailed"
                  ELSE ~timerArmed']_vars

\* A scheduled fetch ended with a PermissionError and stopped the coordinator,
\* and a lock command failed with a PermissionError that went to its caller.
C23_Witness ==
    /\ last.remote = "PermissionError"
    /\ ~last.first
    /\ cstate = "FailedAuth"
    /\ ~timerArmed
    /\ cmd_pc = "done"
    /\ cmd_call.platform = "lock"
    /\ cmd_result = "PermissionError"

(***************************************************************************)
(* AlarmHub of the websocket revision (hub.py) and the availability of its *)
(* entities (entity.py).                                                   *)
(***************************************************************************)
\* Seconds a disconnected websocket still counts as available (hub.py 76).
AVAILABLE_SECONDS == 60

\* The clock advances in steps of TickSeconds up to MaxClock.
TickSeconds == 20

MaxClock == 120

\* What api.initialize() can raise; "TimeoutError" is also asyncio.timeout(10)
\* expiring, "CancelledError" is no subclass of Exception.
InitializeErrors ==
    {"TimeoutError", "UnexpectedResponse", "ServiceUnavailable",
     "AuthenticationException", "Exception", "CancelledError"}

\* AlarmHub.initialize: what it gives its caller when api.initialize() raises exc.
initialize_raises(exc) ==
    CASE exc \in {"TimeoutError", "UnexpectedResponse", "ServiceUnavailable"} -> "ConfigEntryNotReady"
      [] exc = "AuthenticationException" -> "ConfigEntryAuthFailed"
      [] exc = "Exception" -> "False"
      [] OTHER -> exc

\* Mutant: the session is left open when initialize() returns False.
finally_closes_only_when_raising(setup_ok, exc) == ~setup_ok /\ exc # "Exception"

\* The finally clause of AlarmHub.initialize (hub.py 128-130).
finally_closes(setup_ok, exc) == ~setup_ok

\* AlarmHub.available, the value it returns.
available(connected, prev, t) ==
    IF connected THEN TRUE
    ELSE IF prev = NeverSet THEN FALSE
    ELSE t - prev < AVAILABLE_SECONDS

\* AlarmHub.available, the _last_connected it leaves.
available_last_connected(connected, prev, t) == IF connected THEN t ELSE prev

\* Mutant: the hub's availability is left out.
available_fn_own_data(hub_available, loading, state) == ~loading /\ state # "UNKNOWN"

\* entity.available_fn for a resource whose attributes have an Enum state.
available_fn(hub_available, loading, state) ==
    hub_available /\ ~loading /\ state # "UNKNOWN"

PyBool(b) == IF b THEN PyTrue ELSE PyFalse

\* One read of the property AlarmHub.available.
ReadAvailable ==
    /\ hub_query' = [asked |-> TRUE, at |-> now, connected |-> ws_state = "CONNECTED",
                     result |-> available(ws_state = "CONNECTED", last_connected, now)]
    /\ last_connected' = available_last_connected(ws_state = "CONNECTED", last_connected, now)

\* initialize() awaits api.initialize().
InitializeStart ==
    /\ UNCHANGED notHub
    /\ hub_pc = "new"
    /\ hub_pc' = "initializing"
    /\ hub_api' = Append(hub_api, "api.initialize")
    /\ UNCHANGED <<hub_exc, hub_result, ws_state, ws_raised, ws_ever, ws_down_at, now,
                   last_connected, hub_query, res_state, res_loading, ent_available>>

\* api.initialize() raises (or the ten seconds pass): an except clause is chosen.
InitializeRaises(exc) ==
    /\ UNCHANGED notHub
    /\ hub_pc = "initializing"
    /\ hub_pc' = "finally"
    /\ hub_exc' = exc
    /\ UNCHANGED <<hub_api, hub_result, ws_state, ws_raised, ws_ever, ws_down_at, now,
                   last_connected, hub_query, res_state, res_loading, ent_available>>

\* The finally clause runs: setup_ok is false.
InitializeFinally ==
    /\ UNCHANGED notHub
    /\ hub_pc = "finally"
    /\ hub_pc' = "leaving"
    /\ hub_api' = IF finally_closes(FALSE, hub_exc) THEN Append(hub_api, "api.close") ELSE hub_api
    /\ UNCHANGED <<hub_exc, hub_result, ws_state, ws_raised, ws_ever, ws_down_at, now,
                   last_connected, hub_query, res_state, res_loading, ent_available>>

\* The failure leaves initialize(): raised, or returned as False.
InitializeFails ==
    /\ UNCHANGED notHub
    /\ hub_pc = "leaving"
    /\ hub_pc' = "failed"
    /\ hub_result' = initialize_raises(hub_exc)
    /\ UNCHANGED <<hub_api, hub_exc, ws_state, ws_raised, ws_ever, ws_down_at, now,
                   last_connected, hub_query, res_state, res_loading, ent_available>>

\* api.initialize() returns: event monitoring, update listener, hub device;
\* the platforms then construct their entities (AdcEntity.__init__).
InitializeReturns ==
    /\ UNCHANGED notHub
    /\ hub_pc = "initializing"
    /\ hub_pc' = "ready"
    /\ hub_api' = hub_api \o
          (IF finally_closes(TRUE, "none") THEN <<"api.close">> ELSE << >>) \o
          <<"api.start_event_monitoring", "add_update_listener", "async_get_or_create">>
    /\ hub_result' = "True"
    /\ ReadAvailable
    /\ ent_available' = PyBool(available_fn(hub_query'.result, res_loading, res_state))
    /\ UNCHANGED <<hub_exc, ws_state, ws_raised, ws_ever, ws_down_at, now,
                   res_state, res_loading>>

\* The host sets the entry up again after a failure: a new hub.
SetupAgain ==
    /\ UNCHANGED notHub
    /\ hub_pc = "failed"
    /\ hub_pc' = "new"
    /\ hub_api' = << >>
    /\ hub_exc' = "none"
    /\ hub_result' = "none"
    /\ UNCHANGED <<ws_state, ws_raised, ws_ever, ws_down_at, now,
                   last_connected, hub_query, res_state, res_loading, ent_available>>

\* AlarmHub.close: close jobs, api.close(), the platforms are unloaded.
Close ==
    /\ UNCHANGED notHub
    /\ hub_pc = "ready"
    /\ hub_pc' = "closed"
    /\ hub_api' = hub_api \o <<"close_jobs", "api.close", "async_unload_platforms">>
    /\ ws_state' = "CLOSED"
    /\ ws_down_at' = IF ws_state = "CONNECTED" THEN now ELSE ws_down_at
    /\ ent_available' = PyNone
    /\ UNCHANGED <<hub_exc, hub_result, ws_raised, ws_ever, now,
                   last_connected, hub_query, res_state, res_loading>>

\* _ws_state_handler: what it raises for a connection event.
ws_state_handler_raises(current_state) ==
    IF current_state = "DEAD" THEN "ConfigEntryNotReady" ELSE "none"

\* The library reports a change of the websocket's state.
WsEvent(current_state) ==
    /\ UNCHANGED notHub
    /\ hub_pc = "ready"
    /\ CASE current_state = "CONNECTED" -> ws_state \in {"NONE", "DISCONNECTED"}
         [] current_state = "DISCONNECTED" -> ws_state = "CONNECTED"
         [] current_state = "DEAD" -> ws_state = "DISCONNECTED"
    /\ ws_state' = current_state
    /\ ws_raised' = ws_state_handler_raises(current_state)
    /\ ws_ever' = (ws_ever \/ current_state = "CONNECTED")
    /\ ws_down_at' = IF current_state = "DISCONNECTED" THEN now ELSE ws_down_at
    /\ UNCHANGED <<hub_pc, hub_api, hub_exc, hub_result, now,
                   last_connected, hub_query, res_state, res_loading, ent_available>>

\* Time passes.
Tick ==
    /\ UNCHANGED notHub
    /\ hub_pc = "ready"
    /\ now + TickSeconds <= MaxClock
    /\ now' = now + TickSeconds
    /\ UNCHANGED <<hub_pc, hub_api, hub_exc, hub_result, ws_state, ws_raised, ws_ever,
                   ws_down_at, last_connected, hub_query, res_state, res_loading,
                   ent_available>>

\* The device's state or loading flag changes upstream.
ResourceChange(state, loading) ==
    /\ UNCHANGED notHub
    /\ hub_pc = "ready"
    /\ <<state, loading>> # <<res_state, res_loading>>
    /\ res_state' = state
    /\ res_loading' = loading
    /\ UNCHANGED <<hub_pc, hub_api, hub_exc, hub_result, ws_state, ws_raised, ws_ever,
                   ws_down_at, now, last_connected, hub_query, ent_available>>

\* AdcEntity.event_handler for a topic that recomputes the availability.
EntityEvent(topic) ==
    /\ UNCHANGED notHub
    /\ hub_pc = "ready"
    /\ ent_available # PyNone
    /\ topic \in {"RESOURCE_ADDED", "RESOURCE_UPDATED", "CONNECTION_EVENT"}
    /\ ReadAvailable
    /\ ent_available' = PyBool(available_fn(hub_query'.result, res_loading, res_state))
    /\ UNCHANGED <<hub_pc, hub_api, hub_exc, hub_result, ws_state, ws_raised, ws_ever,
                   ws_down_at, now, res_state, res_loading>>

HubInit ==
    /\ hub_pc = "new"
    /\ hub_api = << >>
    /\ hub_exc = "none"
    /\ hub_result = "none"
    /\ ws_state = "NONE"
    /\ ws_raised = "none"
    /\ ws_ever = FALSE
    /\ ws_down_at = 0
    /\ now = 0
    /\ last_connected = NeverSet
    /\ hub_query = NoQuery
    /\ res_state \in {"CLOSED", "UNKNOWN"}
    /\ res_loading = FALSE
    /\ ent_available = PyNone

InitHub ==
    CoordOff /\ RegOff /\ CleanOff /\ MigOff /\ NormOff /\ CmdOff /\ ViewOff /\ HubInit

NextHub ==
    \/ InitializeStart
    \/ \E exc \in InitializeErrors : InitializeRaises(exc)
    \/ InitializeFinally
    \/ InitializeFails
    \/ InitializeReturns
    \/ SetupAgain
    \/ Close
    \/ \E st \in {"CONNECTED", "DISCONNECTED", "DEAD"} : WsEvent(st)
    \/ Tick
    \/ \E st \in {"CLOSED", "OPEN", "UNKNOWN"}, l \in BOOLEAN : ResourceChange(st, l)
    \/ \E topic \in {"RESOURCE_UPDATED", "CONNECTION_EVENT"} : EntityEvent(topic)

SpecHub == InitHub /\ [][NextHub]_vars

\* The entity's own data says it cannot be shown.
OwnDataUnavailable == res_loading \/ res_state = "UNKNOWN"

\* The step in which an entity handles an event.
EntityHandled == hub_query' # hub_query /\ hub_pc = "ready"

LowerOf ==
    [c \in {"A", "B", "D", "E", "F", "I", "N", "O", "P", "R", "S", "T", "U", "W", "Y"} |->
        CASE c = "A" -> "a" [] c = "B" -> "b" [] c = "D" -> "d" [] c = "E" -> "e"
          [] c = "F" -> "f" [] c = "I" -> "i" [] c = "N" -> "n" [] c = "O" -> "o"
          [] c = "P" -> "p" [] c = "R" -> "r" [] c = "S" -> "s" [] c = "T" -> "t"
          [] c = "U" -> "u" [] c = "W" -> "w" [] c = "Y" -> "y"]

\* re.IGNORECASE: both sides are compared in lower case.
Lower(str) == [i \in 1..Len(str) |-> IF str[i] \in DOMAIN LowerOf THEN LowerOf[str[i]] ELSE str[i]]

\* re.search(word, name, re.IGNORECASE) is not None, for a word without
\* metacharacters: the word occurs somewhere in the name.
re_search(word, name) ==
    \E i \in 1..Len(name) :
        /\ i + Len(word) - 1 <= Len(name)
        /\ SubSeq(Lower(name), i, i + Len(word) - 1) = Lower(word)

\* device_type_langs.LANG_DOOR and LANG_WINDOW: (language, word) pairs.
LANG_DOOR == << <<"en", <<"d", "o", "o", "r">> >>, <<"es", <<"p", "u", "e", "r", "t", "a">> >> >>

LANG_WINDOW ==
    << <<"en", <<"w", "i", "n", "d", "o", "w">> >>, <<"es", <<"v", "e", "n", "t", "a", "n", "a">> >> >>

\* One of the two loops of _determine_device_class: the class it leaves.
RECURSIVE MatchLoop(_, _, _, _)
MatchLoop(lang, name, class, derived) ==
    IF lang = << >> THEN derived
    ELSE MatchLoop(Tail(lang), name, class,
                   IF re_search(Head(lang)[2], name) THEN class ELSE derived)

CONTACT_SUBTYPES == {"CONTACT_SENSOR", "CONTACT_SHOCK_SENSOR"}

\* Mutant: the window words are scanned first, so the door words win.
derived_class_window_first(name) ==
    MatchLoop(LANG_DOOR, name, "door", MatchLoop(LANG_WINDOW, name, "window", PyNone))

\* The door loop, then the window loop (binary_sensor.py 163-182).
derived_class(name) ==
    MatchLoop(LANG_WINDOW, name, "window", MatchLoop(LANG_DOOR, name, "door", PyNone))

\* BinarySensor._determine_device_class.
determine_device_class(device) ==
    LET raw_subtype == device.subtype
        derived == IF raw_subtype \in CONTACT_SUBTYPES THEN derived_class(device.name) ELSE PyNone
    IN  IF derived # PyNone /\ raw_subtype \in CONTACT_SUBTYPES THEN derived
        ELSE IF device.kind = "water_sensor" THEN "moisture"
        ELSE CASE raw_subtype = "SMOKE_DETECTOR" -> "smoke"
               [] raw_subtype = "CO_DETECTOR" -> "carbon_monoxide"
               [] raw_subtype = "PANIC_BUTTON" -> "safety"
               [] raw_subtype \in {"GLASS_BREAK_DETECTOR", "PANEL_GLASS_BREAK_DETECTOR"} -> "vibration"
               [] raw_subtype \in {"MOTION_SENSOR", "PANEL_MOTION_SENSOR"} -> "motion"
               [] raw_subtype = "FREEZE_SENSOR" -> "cold"
               [] OTHER -> PyNone

\* alarm_control_panel.state_fn: the two mappings.
state_mapping(state) ==
    CASE state = "DISARMED" -> "disarmed"
      [] state = "ARMED_STAY" -> "armed_home"
      [] state = "ARMED_AWAY" -> "armed_away"
      [] state = "ARMED_NIGHT" -> "armed_night"
      [] OTHER -> PyNone

desired_state_mapping(desired) ==
    CASE desired = "DISARMED" -> "disarming"
      [] desired \in {"ARMED_STAY", "ARMED_AWAY", "ARMED_NIGHT"} -> "arming"
      [] OTHER -> PyNone

\* Mutant: a malfunctioning partition is shown like any other.
state_fn_malfunction_ignored(attributes) ==
    IF attributes.state = attributes.desired_state THEN state_mapping(attributes.state)
    ELSE IF attributes.desired_state # PyNone
         THEN desired_state_mapping(attributes.desired_state) ELSE PyNone

\* alarm_control_panel.state_fn.
state_fn(attributes) ==
    IF attributes.is_malfunctioning THEN PyNone
    ELSE IF attributes.state = attributes.desired_state THEN state_mapping(attributes.state)
    ELSE IF attributes.desired_state # PyNone
         THEN desired_state_mapping(attributes.desired_state) ELSE PyNone

\* lock.is_locked_fn, is_locking_fn, is_unlocking_fn.
is_locked_fn(attributes) == attributes.state = "LOCKED"

is_locking_fn(attributes) ==
    attributes.state # "LOCKED" /\ attributes.desired_state = "LOCKED"

is_unlocking_fn(attributes) ==
    attributes.state # "UNLOCKED" /\ attributes.desired_state = "UNLOCKED"

\* What the entity of the resource displays.
Shown(resource) ==
    [device_class |-> IF resource.kind \in {"sensor", "water_sensor"}
                      THEN determine_device_class(resource) ELSE PyNone,
     alarm_state |-> IF resource.kind = "partition" THEN state_fn(resource) ELSE PyNone,
     is_locked |-> resource.kind = "lock" /\ is_locked_fn(resource),
     is_locking |-> resource.kind = "lock" /\ is_locking_fn(resource),
     is_unlocking |-> resource.kind = "lock" /\ is_unlocking_fn(resource)]

SensorNames ==
    {<<"F", "r", "o", "n", "t", " ", "D", "o", "o", "r">>,
     <<"W", "i", "n", "d", "o", "w">>,
     <<"D", "o", "o", "r", " ", "W", "i", "n", "d", "o", "w">>,
     <<"W", "I", "N", "D", "O", "W", " ", "B", "Y", " ", "D", "O", "O", "R">>,
     <<"S", "a", "f", "e">>,
     <<"I", "n", "d", "o", "o", "r">>,
     <<"P", "u", "e", "r", "t", "a">>}

SensorSubtypes ==
    {"CONTACT_SENSOR", "CONTACT_SHOCK_SENSOR", "SMOKE_DETECTOR", "CO_DETECTOR",
     "PANIC_BUTTON", "GLASS_BREAK_DETECTOR", "MOTION_SENSOR", "FREEZE_SENSOR", PyNone}

PartitionStates == {"DISARMED", "ARMED_STAY", "ARMED_AWAY", "ARMED_NIGHT", "UNKNOWN"}

LockStates == {"LOCKED", "UNLOCKED", "UNKNOWN"}

Resource(kind, name, subtype, state, desired, malf) ==
    [kind |-> kind, name |-> name, subtype |-> subtype, state |-> state,
     desired_state |-> desired, is_malfunctioning |-> malf]

Resources ==
    {Resource("sensor", n, t, "CLOSED", PyNone, FALSE) : n \in SensorNames, t \in SensorSubtypes}
    \cup {Resource("water_sensor", n, PyNone, "DRY", PyNone, FALSE) : n \in SensorNames}
    \cup {Resource("partition", << >>, PyNone, st, d, m) :
            st \in PartitionStates, d \in PartitionStates \cup {PyNone}, m \in BOOLEAN}
    \cup {Resource("lock", << >>, PyNone, st, d, FALSE) :
            st \in LockStates, d \in LockStates \cup {PyNone}}

\* The entity is constructed: initiate_state (BinarySensor.__init__ for sensors).
InitiateState ==
    /\ UNCHANGED notView
    /\ vw_pc = "new"
    /\ vw_pc' = "shown"
    /\ vw_shown' = Shown(vw_resource)
    /\ UNCHANGED vw_resource

\* A resource event: state and desired_state change, update_state recomputes.
UpdateState(state, desired) ==
    /\ UNCHANGED notView
    /\ vw_pc = "shown"
    /\ vw_resource.kind \in {"partition", "lock"}
    /\ state \in (IF vw_resource.kind = "lock" THEN LockStates ELSE PartitionStates)
    /\ desired \in (IF vw_resource.kind = "lock" THEN LockStates ELSE PartitionStates) \cup {PyNone}
    /\ <<state, desired>> # <<vw_resource.state, vw_resource.desired_state>>
    /\ vw_resource' = [vw_resource EXCEPT !.state = state, !.desired_state = desired]
    /\ vw_shown' = Shown(vw_resource')
    /\ UNCHANGED vw_pc

ViewInit ==
    /\ vw_pc = "new"
    /\ vw_resource \in Resources
    /\ vw_shown = NothingShown

InitView ==
    CoordOff /\ RegOff /\ CleanOff /\ MigOff /\ NormOff /\ CmdOff /\ HubOff /\ ViewInit

NextView ==
    \/ InitiateState
    \/ \E st \in PartitionStates \cup LockStates, d \in PartitionStates \cup LockStates \cup {PyNone} :
          UpdateState(st, d)

SpecView == InitView /\ [][NextView]_vars

\* Whether a word of the list occurs in the name.
MatchesAny(lang, name) == \E i \in 1..Len(lang) : re_search(lang[i][2], name)

\* C26: a contact sensor whose name matches a window word is a window, also
\* when it matches a door word too; one whose name matches only door words is a
\* door; one whose name matches neither keeps the generic class; a sensor of
\* another subtype is never a door or a window.
C26_ContactClassification ==
    (vw_pc = "shown" /\ vw_resource.kind = "sensor") =>
        LET name == vw_resource.name
            class == vw_shown.device_class
        IN  IF vw_resource.subtype \in CONTACT_SUBTYPES
            THEN /\ MatchesAny(LANG_WINDOW, name) => class = "window"
                 /\ (MatchesAny(LANG_DOOR, name) /\ ~MatchesAny(LANG_WINDOW, name))
                        => class = "door"
                 /\ (~MatchesAny(LANG_DOOR, name) /\ ~MatchesAny(LANG_WINDOW, name))
                        => class = PyNone
            ELSE class \notin {"door", "window"}

\* A contact sensor named "Door Window" is shown as a window.
C26_Witness ==
    /\ vw_pc = "shown"
    /\ vw_resource.kind = "sensor"
    /\ vw_resource.subtype = "CONTACT_SENSOR"
    /\ MatchesAny(LANG_DOOR, vw_resource.name)
    /\ MatchesAny(LANG_WINDOW, vw_resource.name)
    /\ vw_shown.device_class = "window"

\* The states a partition or a lock can be commanded into.
PartitionTargets == {"DISARMED", "ARMED_STAY", "ARMED_AWAY", "ARMED_NIGHT"}

LockTargets == {"LOCKED", "UNLOCKED"}

\* The partition's displayed state follows state and desired_state.
PartitionFollowsDesired ==
    LET r == vw_resource
    IN  /\ (r.state # r.desired_state /\ r.desired_state \in PartitionTargets)
            => vw_shown.alarm_state =
                  (IF r.desired_state = "DISARMED" THEN "disarming" ELSE "arming")
        /\ (r.state = r.desired_state /\ r.state \in PartitionTargets)
            => vw_shown.alarm_state \in {"disarmed", "armed_home", "armed_away", "armed_night"}
        /\ (r.state = r.desired_state /\ r.state = "DISARMED")
            => vw_shown.alarm_state = "disarmed"

\* The lock's flags follow state and desired_state.
LockFollowsDesired ==
    LET r == vw_resource
    IN  /\ (r.state # r.desired_state /\ r.desired_state = "LOCKED") => vw_shown.is_locking
        /\ (r.state # r.desired_state /\ r.desired_state = "UNLOCKED") => vw_shown.is_unlocking
        /\ r.state = r.desired_state =>
              (~vw_shown.is_locking /\ ~vw_shown.is_unlocking
                 /\ vw_shown.is_locked = (r.state = "LOCKED"))
        /\ ~(vw_shown.is_locking /\ vw_shown.is_unlocking)
        /\ ~(vw_shown.is_locked /\ vw_shown.is_locking)

\* C27 as claimed: for every partition and lock the displayed state is the
\* transitional one while state differs from desired_state and the settled one
\* when they are equal.
C27_AsClaimed ==
    vw_pc = "shown" =>
        /\ vw_resource.kind = "partition" => PartitionFollowsDesired
        /\ vw_resource.kind = "lock" => LockFollowsDesired

\* C27: a malfunctioning partition displays no state at all; a partition that
\* is not malfunctioning displays arming or disarming while state differs from
\* the desired target and the settled state when they are equal; a lock is
\* locking or unlocking while state differs from the desired target, neither
\* when they are equal, never both, and never locked and locking at once.
C27_TransitionsUnlessMalfunctioning ==
    vw_pc = "shown" =>
        /\ (vw_resource.kind = "partition" /\ vw_resource.is_malfunctioning)
              => vw_shown.alarm_state = PyNone
        /\ (vw_resource.kind = "partition" /\ ~vw_resource.is_malfunctioning)
              => PartitionFollowsDesired
        /\ vw_resource.kind = "lock" => LockFollowsDesired

\* A malfunctioning partition on its way from DISARMED to ARMED_AWAY displays
\* no state.
C27_Witness ==
    /\ vw_pc = "shown"
    /\ vw_resource.kind = "partition"
    /\ vw_resource.is_malfunctioning
    /\ vw_resource.state = "DISARMED"
    /\ vw_resource.desired_state = "ARMED_AWAY"
    /\ vw_shown.alarm_state = PyNone

\* What the websocket's history says about the hub: connected, or connected
\* before and disconnected for less than AVAILABLE_SECONDS.
ConnectedOrLatelyDisconnected ==
    IF ws_state = "CONNECTED" THEN TRUE
    ELSE IF ~ws_ever THEN FALSE
    ELSE now - ws_down_at < AVAILABLE_SECONDS

\* C28 as claimed: whenever AlarmHub.available is read it is false for a
\* websocket that was never connected, true for a connected one, true for one
\* disconnected for less than 60 seconds and false for one disconnected for 60
\* seconds or more, whenever it was read before.
C28_AsClaimed ==
    [][(hub_query' # hub_query /\ hub_pc' = "ready")
          => hub_query'.result = ConnectedOrLatelyDisconnected]_vars

\* The handler of the current call sent its command to the library.
CommandSent == cmd_log # << >> /\ cmd_log[1] = "send"

\* C29: a partition or lock command is sent to the library only if no arm code
\* is configured (None or the empty string) or the code supplied with the call
\* equals the configured one; with a configured code and a missing or different
\* supplied code nothing is sent.
C29_CodeGate ==
    (cmd_pc # "idle" /\ cmd_call.platform \in CodePlatforms) =>
        (CommandSent <=>
            (cmd_arm_code \in {OptNone, OptStr("")} \/ cmd_call.code = cmd_arm_code))

\* With the arm code "1234" configured, a lock call that supplied "0000" ended
\* without a command being sent.
C29_Witness ==
    /\ cmd_arm_code = OptStr("1234")
    /\ cmd_call.platform = "lock"
    /\ cmd_call.code = OptStr("0000")
    /\ cmd_pc = "done"
    /\ cmd_result = "returned"
    /\ ~CommandSent

\* C30: whenever initialize() reports a failure (raises, or returns False),
\* api.close() has been called after api.initialize() and nothing was started;
\* event monitoring, the update listener and the hub device come only after
\* api.initialize() succeeded, and then api.close() is not called.
C30_InitializeReleasesSession ==
    /\ hub_result \notin {"none", "True"}
          => hub_api = <<"api.initialize", "api.close">>
    /\ hub_pc \in {"initializing", "finally"}
          => hub_api = <<"api.initialize">>
    /\ hub_pc = "ready"
          => /\ hub_result = "True"
             /\ hub_api = <<"api.initialize", "api.start_event_monitoring",
                            "add_update_listener", "async_get_or_create">>

\* api.initialize() raised an unexpected error: the session was closed and
\* initialize() returned False.
C30_Witness ==
    /\ hub_pc = "failed"
    /\ hub_exc = "Exception"
    /\ hub_result = "False"
    /\ hub_api = <<"api.initialize", "api.close">>

====
